---- MODULE Spec2Model ----
(***************************************************************************)
(* A model of memscan's memory-inspection engine (libmemscan):             *)
(*   - the interactive scanner (interactive.rs): initial_scan, filter,     *)
(*     cleanup_empty_regions over a target process whose memory changes    *)
(*     and whose pages may become unreadable;                              *)
(*   - the region iterator (process.rs, windows/process.rs,                *)
(*     linux/process.rs) and the collection of scannable regions           *)
(*     (repl.rs, scanner.rs);                                              *)
(*   - snapshot diffing (diff.rs);                                         *)
(*   - typed arithmetic (values.rs).                                       *)
(* Each part has its own specification over the shared variables; the      *)
(* variables of the other parts are held at their idle values.             *)
(***************************************************************************)
EXTENDS Integers, Sequences, FiniteSets, TLC

VARIABLES
    \* ---- target process and interactive scanner ----
    platform,       \* "linux" | "windows": the OS adapter the iterator runs on
    mem,            \* target memory: address -> byte
    readablePages,  \* pages of the target that can currently be read
    regions,        \* InteractiveScanner.regions
    matches,        \* InteractiveScanner.matches
    value_type,     \* InteractiveScanner.value_type
    alignment,      \* InteractiveScanner.alignment
    scanState,      \* "ok" | "panicked" (the thread aborted)
    lastOp,         \* the operation that produced the current state
    \* ---- region iterator and region collection ----
    osTiles,        \* what the OS reports: consecutive address ranges
    cur_addr,       \* MemoryRegionIterator.cur_addr
    max_addr,       \* MemoryRegionIterator.max_addr
    itState,        \* "iterating" | "done" | "hung"
    yielded,        \* regions returned by next() so far
    modules,        \* module regions handed to the collector
    all_modules,    \* the all_modules option
    collected,      \* the region list built by the collector
    \* ---- snapshot diff ----
    snapOld, snapNew, changes, diffDone,
    \* ---- typed arithmetic ----
    opA, opB, mathOp, mathResult,
    \* ---- value encoding ----
    cvValue,        \* the Value handed to to_bytes
    cvBytes,        \* Some(to_bytes(value)) once encoded
    cvBack,         \* Some(from_bytes(bytes, 0, T)) once decoded
    \* ---- pattern search ----
    haystack, needle, regionBase,
    searchResult,   \* Some(naive_search(haystack, needle)) once called
    prev_off,       \* scan_process: where the next search of the region starts
    scanHits,       \* scan_process: the addresses printed as [match] so far
    scanPc,         \* scan_process: "idle" | "loop" | "done"
    mappedReport,   \* Some(addresses scan_process reports with use_memmap = true)
    pagedReport,    \* Some(addresses scan_process reports with use_memmap = false)
    \* ---- hex pattern parsing ----
    hexInput, hexResult,
    \* ---- region mapper ----
    mappings,       \* MemoryMapper.mappings: the mapped regions, one per base address
    mapResult,      \* outcome of the last map_region call
    \* ---- scanner writes ----
    writablePages,  \* pages of the target that can currently be written
    opResult,       \* outcome of the last write/modify operation
    \* ---- checkpoints ----
    checkpoints,    \* InteractiveScanner checkpoints: name -> (address -> Value)
    filterCall      \* arguments of the last recorded filter call and the matches it started from

scanVars == <<platform, mem, readablePages, regions, matches, value_type,
              alignment, scanState, lastOp>>
iterVars == <<osTiles, cur_addr, max_addr, itState, yielded, modules,
              all_modules, collected>>
diffVars == <<snapOld, snapNew, changes, diffDone>>
arithVars == <<opA, opB, mathOp, mathResult>>
convVars == <<cvValue, cvBytes, cvBack>>
patVars == <<haystack, needle, regionBase, searchResult, prev_off, scanHits, scanPc,
             mappedReport, pagedReport>>
hexVars == <<hexInput, hexResult>>
mapVars == <<mappings, mapResult>>
writeVars == <<writablePages, opResult>>
cpVars == <<checkpoints, filterCall>>
extVars == <<convVars, patVars, hexVars, mapVars, writeVars, cpVars>>
vars == <<scanVars, iterVars, diffVars, arithVars, extVars>>

(***************************************************************************)
(* Bounds of the model.                                                    *)
(***************************************************************************)
MaxAddr == 3        \* the target's modelled addresses are 0 .. MaxAddr-1
MaxAlign == 2       \* set_alignment is called with 0 .. MaxAlign
MaxTiles == 3       \* the OS reports at most this many address ranges
MaxDataLen == 3     \* snapshots hold at most this many bytes

PageSize == 2       \* readability of the target is page-granular
ByteVals == {0, 255}

None == <<>>
Some(x) == <<x>>

Pow2(n) == 2 ^ n

(***************************************************************************)
(* Typed values: ValueType, Value, from_bytes, comparisons.                *)
(***************************************************************************)
\* ValueType::size
TypeSize(t) ==
    CASE t \in {"I8", "U8"} -> 1
      [] t \in {"I16", "U16"} -> 2
      [] t \in {"I32", "U32", "F32"} -> 4
      [] OTHER -> 8

IsSigned(t) == t \in {"I8", "I16", "I32", "I64"}

BitWidth(t) == 8 * TypeSize(t)

Val(t, v) == [t |-> t, v |-> v]

\* iN::from_le_bytes / uN::from_le_bytes of a byte sequence (least
\* significant byte first); the top byte carries the sign of a signed type
RECURSIVE LeUnsigned(_)
LeUnsigned(bs) ==
    IF bs = <<>> THEN 0 ELSE Head(bs) + 256 * LeUnsigned(Tail(bs))

from_le_bytes(bs, t) ==
    LET n == Len(bs)
        top == bs[n]
        low == LeUnsigned(SubSeq(bs, 1, n - 1))
    IN  IF IsSigned(t) /\ top >= 128
        THEN low + (top - 256) * Pow2(8 * (n - 1))
        ELSE low + top * Pow2(8 * (n - 1))

\* a decoder that picks the variant by width alone: every value comes out
\* as the unsigned type of that width
from_bytes_unsigned(bytes, offset, t) ==
    IF offset + TypeSize(t) > Len(bytes)
    THEN None
    ELSE LET u == CASE TypeSize(t) = 1 -> "U8"
                    [] TypeSize(t) = 2 -> "U16"
                    [] TypeSize(t) = 4 -> "U32"
                    [] OTHER -> "U64"
         IN  Some(Val(u, LeUnsigned(SubSeq(bytes, offset + 1, offset + TypeSize(t)))))

\* Value::from_bytes(bytes, offset, value_type); offset counts from 0
from_bytes(bytes, offset, t) ==
    IF offset + TypeSize(t) > Len(bytes)
    THEN None
    ELSE Some(Val(t, from_le_bytes(SubSeq(bytes, offset + 1, offset + TypeSize(t)), t)))

values_equal(a, b) == a.t = b.t /\ a.v = b.v
value_less_than(a, b) == a.t = b.t /\ a.v < b.v
value_greater_than(a, b) == a.t = b.t /\ a.v > b.v

(***************************************************************************)
(* The target process: read_process_memory.  The scanner keeps no state    *)
(* that depends on the OS adapter, so the adapter (pf) is an argument of   *)
(* each OS call.                                                           *)
(***************************************************************************)
Platforms == {"linux", "windows"}

Readable(a) == a >= 0 /\ a < MaxAddr /\ (a \div PageSize) \in readablePages

\* number of consecutive readable bytes starting at addr, at most len
RECURSIVE ReadablePrefix(_, _)
ReadablePrefix(addr, len) ==
    IF len = 0 \/ ~Readable(addr) THEN 0
    ELSE 1 + ReadablePrefix(addr + 1, len - 1)

\* read_process_memory(proc, addr, buf): bytes read.  Linux: pread on
\* /proc/pid/mem gives a short count at the first unreadable page and an
\* error (0) when nothing can be read.  Windows: ReadProcessMemory fails as
\* a whole when any part of the range is inaccessible, and 0 is returned.
read_process_memory(pf, addr, len) ==
    LET n == ReadablePrefix(addr, len)
    IN  IF pf = "windows" /\ n < len THEN 0 ELSE n

\* the buffer after a full read of len bytes at addr
ReadBuffer(addr, len) == [i \in 1..len |-> mem[addr + i - 1]]

(***************************************************************************)
(* InteractiveScanner                                                      *)
(***************************************************************************)
Region(b, s) == [base_address |-> b, size |-> s]

MatchedAddress(a, cur, prev) ==
    [address |-> a, current_value |-> cur, previous_value |-> prev]

\* a scan loop that stops one value short of the end of the buffer
RECURSIVE ScanRegionShort(_, _, _, _, _)
ScanRegionShort(buffer, base, offset, t, align) ==
    IF offset + TypeSize(t) < Len(buffer)
    THEN LET v == from_bytes(buffer, offset, t)
             hit == IF offset % align = 0 /\ v # None
                    THEN <<MatchedAddress(base + offset, v[1], None)>>
                    ELSE <<>>
         IN  hit \o ScanRegionShort(buffer, base, offset + align, t, align)
    ELSE <<>>

\* the while loop of initial_scan over one fully read region
\* (alignment >= 1 here; alignment 0 is handled by ScanPanics)
RECURSIVE ScanRegion(_, _, _, _, _)
ScanRegion(buffer, base, offset, t, align) ==
    IF offset + TypeSize(t) <= Len(buffer)
    THEN LET v == from_bytes(buffer, offset, t)
             hit == IF offset % align = 0 /\ v # None
                    THEN <<MatchedAddress(base + offset, v[1], None)>>
                    ELSE <<>>
         IN  hit \o ScanRegion(buffer, base, offset + align, t, align)
    ELSE <<>>

\* a region initial_scan does not skip: it was read in full
FullyRead(pf, r) == ~(read_process_memory(pf, r.base_address, r.size) < r.size)

\* the for loop of initial_scan over self.regions
RECURSIVE ScanRegions(_, _, _, _)
ScanRegions(pf, rs, t, align) ==
    IF rs = <<>> THEN <<>>
    ELSE LET r == Head(rs)
             here == IF FullyRead(pf, r)
                     THEN ScanRegion(ReadBuffer(r.base_address, r.size),
                                     r.base_address, 0, t, align)
                     ELSE <<>>
         IN  here \o ScanRegions(pf, Tail(rs), t, align)

\* `offset % self.alignment` with alignment 0 aborts the thread as soon as
\* the while loop is entered for some region
ScanPanics(pf, rs, t, align) ==
    align = 0 /\ \E i \in 1..Len(rs) : FullyRead(pf, rs[i]) /\ TypeSize(t) <= rs[i].size

\* a `keep` match whose Increased and Decreased arms are exchanged
KeepSwapped(op, current, compare_value, m) ==
    CASE op = "Equals" ->
            IF compare_value # None THEN values_equal(current, compare_value[1]) ELSE FALSE
      [] op = "LessThan" ->
            IF compare_value # None THEN value_less_than(current, compare_value[1]) ELSE FALSE
      [] op = "GreaterThan" ->
            IF compare_value # None THEN value_greater_than(current, compare_value[1]) ELSE FALSE
      [] op = "Increased" -> value_less_than(current, m.current_value)
      [] op = "Decreased" -> value_greater_than(current, m.current_value)
      [] op = "Changed" -> ~values_equal(current, m.current_value)
      [] op = "Unchanged" -> values_equal(current, m.current_value)

\* a `keep` match that lets a comparison without compare value pass
KeepWithoutValue(op, current, compare_value, m) ==
    CASE op = "Equals" ->
            IF compare_value # None THEN values_equal(current, compare_value[1]) ELSE TRUE
      [] op = "LessThan" ->
            IF compare_value # None THEN value_less_than(current, compare_value[1]) ELSE TRUE
      [] op = "GreaterThan" ->
            IF compare_value # None THEN value_greater_than(current, compare_value[1]) ELSE TRUE
      [] op = "Increased" -> value_greater_than(current, m.current_value)
      [] op = "Decreased" -> value_less_than(current, m.current_value)
      [] op = "Changed" -> ~values_equal(current, m.current_value)
      [] op = "Unchanged" -> values_equal(current, m.current_value)

\* the `keep` match of filter
Keep(op, current, compare_value, m) ==
    CASE op = "Equals" ->
            IF compare_value # None THEN values_equal(current, compare_value[1]) ELSE FALSE
      [] op = "LessThan" ->
            IF compare_value # None THEN value_less_than(current, compare_value[1]) ELSE FALSE
      [] op = "GreaterThan" ->
            IF compare_value # None THEN value_greater_than(current, compare_value[1]) ELSE FALSE
      [] op = "Increased" -> value_greater_than(current, m.current_value)
      [] op = "Decreased" -> value_less_than(current, m.current_value)
      [] op = "Changed" -> ~values_equal(current, m.current_value)
      [] op = "Unchanged" -> values_equal(current, m.current_value)

\* the for loop of filter: new_matches
RECURSIVE FilterLoop(_, _, _, _, _)
FilterLoop(pf, ms, op, compare_value, t) ==
    IF ms = <<>> THEN <<>>
    ELSE LET m == Head(ms)
             bytes_read == read_process_memory(pf, m.address, TypeSize(t))
             current == from_bytes(ReadBuffer(m.address, TypeSize(t)), 0, t)
             kept ==
                 IF bytes_read < TypeSize(t) THEN <<>>
                 ELSE IF current = None THEN <<>>
                 ELSE IF Keep(op, current[1], compare_value, m)
                      THEN <<MatchedAddress(m.address, current[1],
                                            Some(m.current_value))>>
                      ELSE <<>>
         IN  kept \o FilterLoop(pf, Tail(ms), op, compare_value, t)

\* what filter assigns to self.matches
NewMatchesGrow(pf, ms, op, compare_value, t) ==
    ms \o FilterLoop(pf, ms, op, compare_value, t)

NewMatches(pf, ms, op, compare_value, t) == FilterLoop(pf, ms, op, compare_value, t)

\* the test that marks a region active in cleanup_empty_regions
InRegionInclusiveEnd(a, r) == a >= r.base_address /\ a <= r.base_address + r.size

\* a test that misses a match at the very first address of a region
InRegionExclusiveBase(a, r) == a > r.base_address /\ a < r.base_address + r.size

InRegion(a, r) == a >= r.base_address /\ a < r.base_address + r.size

\* index of the first region containing the address (0 when none): the
\* inner loop of cleanup_empty_regions breaks at the first hit
FirstRegion(a, rs) ==
    LET hits == {i \in 1..Len(rs) : InRegion(a, rs[i])}
    IN  IF hits = {} THEN 0 ELSE CHOOSE i \in hits : \A j \in hits : i <= j

RECURSIVE KeepIndices(_, _, _)
KeepIndices(rs, idx, active) ==
    IF idx > Len(rs) THEN <<>>
    ELSE (IF idx \in active THEN <<rs[idx]>> ELSE <<>>)
         \o KeepIndices(rs, idx + 1, active)

\* a cleanup without the early return for an empty match list
cleanup_without_clear(ms, rs) ==
    IF ms = <<>> THEN rs
    ELSE LET active_regions ==
                 {FirstRegion(ms[k].address, rs) : k \in 1..Len(ms)} \ {0}
         IN  KeepIndices(rs, 1, active_regions)

\* cleanup_empty_regions: the new self.regions
cleanup_empty_regions(ms, rs) ==
    IF ms = <<>> THEN <<>>
    ELSE LET active_regions ==
                 {FirstRegion(ms[k].address, rs) : k \in 1..Len(ms)} \ {0}
         IN  KeepIndices(rs, 1, active_regions)

ScanTypes == {"I8", "U16", "I32"}

\* region lists handed to InteractiveScanner::new
InitialRegionLists ==
    { <<Region(0, 3)>>,
      <<Region(0, 2), Region(2, 1)>>,
      <<Region(1, 2)>>,
      <<Region(0, 1), Region(2, 1)>> }

\* filter arguments: no value, two values of the scanner's type, and a value
\* of another variant
CompareValues(t) ==
    {None, Some(Val(t, 0)), Some(Val(t, IF IsSigned(t) THEN -1 ELSE 255)),
     Some(Val("U8", 0))}

FilterArgs(t) ==
    ({"Equals", "LessThan", "GreaterThan"} \X CompareValues(t))
    \cup ({"Increased", "Decreased", "Changed", "Unchanged"} \X {None})

AllPages == {a \div PageSize : a \in 0..(MaxAddr - 1)}

iterIdle ==
    /\ osTiles = <<>> /\ cur_addr = 0 /\ max_addr = 0 /\ itState = "idle"
    /\ yielded = <<>> /\ modules = <<>> /\ all_modules = FALSE /\ collected = <<>>
diffIdle ==
    /\ snapOld = None /\ snapNew = None /\ changes = <<>> /\ diffDone = FALSE
arithIdle ==
    /\ opA = None /\ opB = None /\ mathOp = "Add" /\ mathResult = None
convIdle == cvValue = <<>> /\ cvBytes = <<>> /\ cvBack = <<>>
patIdle ==
    /\ haystack = <<>> /\ needle = <<>> /\ regionBase = 0
    /\ searchResult = <<>> /\ prev_off = 0 /\ scanHits = <<>> /\ scanPc = "idle"
    /\ mappedReport = <<>> /\ pagedReport = <<>>
hexIdle == hexInput = <<>> /\ hexResult = <<>>
mapIdle == mappings = {} /\ mapResult = <<>>
writeIdle == writablePages = {} /\ opResult = <<>>
cpIdle == checkpoints = <<>> /\ filterCall = <<>>
extIdle == convIdle /\ patIdle /\ hexIdle /\ mapIdle /\ writeIdle /\ cpIdle
scanIdle ==
    /\ platform = "linux" /\ mem = <<>> /\ readablePages = {} /\ regions = <<>>
    /\ matches = <<>> /\ value_type = "I8" /\ alignment = 1 /\ scanState = "idle"
    /\ lastOp = "none"


\* InteractiveScanner::new on a freshly opened target
InitScan ==
    /\ platform = "any"
    /\ mem = [a \in 0..(MaxAddr - 1) |-> 0]
    /\ readablePages = AllPages
    /\ regions \in InitialRegionLists
    /\ matches = <<>>
    /\ value_type \in ScanTypes
    /\ alignment = TypeSize(value_type)
    /\ scanState = "ok"
    /\ lastOp = "new"
    /\ iterIdle /\ diffIdle /\ arithIdle /\ extIdle

\* InteractiveScanner::set_alignment
set_alignment(a) ==
    /\ scanState = "ok"
    /\ alignment' = a
    /\ lastOp' = "other"
    /\ UNCHANGED <<platform, mem, readablePages, regions, matches, value_type,
                   scanState>>

\* InteractiveScanner::initial_scan
initial_scan(pf) ==
    /\ scanState = "ok"
    /\ lastOp' = "initial_scan"
    /\ IF ScanPanics(pf, regions, value_type, alignment)
       THEN /\ scanState' = "panicked"
            /\ UNCHANGED matches
       ELSE /\ matches' = ScanRegions(pf, regions, value_type, alignment)
            /\ UNCHANGED scanState
    /\ UNCHANGED <<platform, mem, readablePages, regions, value_type, alignment>>

\* InteractiveScanner::filter, cleanup_empty_regions included
filter(pf, op, compare_value) ==
    /\ scanState = "ok"
    /\ lastOp' = "filter"
    /\ matches' = NewMatches(pf, matches, op, compare_value, value_type)
    /\ regions' = cleanup_empty_regions(matches', regions)
    /\ UNCHANGED <<platform, mem, readablePages, value_type, alignment, scanState>>

\* the target process writes one byte of its own memory
TargetWrite(a, b) ==
    /\ scanState = "ok"
    /\ mem[a] # b
    /\ mem' = [mem EXCEPT ![a] = b]
    /\ lastOp' = "other"
    /\ UNCHANGED <<platform, readablePages, regions, matches, value_type,
                   alignment, scanState>>

\* the target process unmaps or remaps one of its pages
TargetProtect(p) ==
    /\ scanState = "ok"
    /\ readablePages' = IF p \in readablePages
                        THEN readablePages \ {p} ELSE readablePages \cup {p}
    /\ lastOp' = "other"
    /\ UNCHANGED <<platform, mem, regions, matches, value_type,
                   alignment, scanState>>

FilterStep ==
    \E pf \in Platforms, args \in FilterArgs(value_type) : filter(pf, args[1], args[2])

InitialScanStep == \E pf \in Platforms : initial_scan(pf)

NextScan ==
    \/ (\E a \in 0..MaxAlign : set_alignment(a)) /\ UNCHANGED <<iterVars, diffVars, arithVars, extVars>>
    \/ InitialScanStep /\ UNCHANGED <<iterVars, diffVars, arithVars, extVars>>
    \/ FilterStep /\ UNCHANGED <<iterVars, diffVars, arithVars, extVars>>
    \/ (\E a \in 0..(MaxAddr - 1), b \in ByteVals : TargetWrite(a, b))
          /\ UNCHANGED <<iterVars, diffVars, arithVars, extVars>>
    \/ (\E p \in AllPages : TargetProtect(p)) /\ UNCHANGED <<iterVars, diffVars, arithVars, extVars>>

SpecScan == InitScan /\ [][NextScan]_vars

(***************************************************************************)
(* Claims about the interactive scanner (checked under SpecScan).          *)
(***************************************************************************)

\* C1: filter monotonicity -- whatever the FilterOp, the compare value, the
\* target's memory contents and the read failures, a filter call leaves at
\* most as many matches as there were before it.
C1_FilterMonotone ==
    [][lastOp' = "filter" => Len(matches') <= Len(matches)]_vars

\* a filter has acted and dropped some, but not all, of the three matches an
\* unaligned I8 scan of a three byte region gives
C1_Witness ==
    /\ lastOp = "filter"
    /\ value_type = "I8" /\ regions = <<Region(0, 3)>>
    /\ Len(matches) = 2
    /\ \A k \in 1..Len(matches) : matches[k].previous_value # None
    /\ matches[1].address = 0 /\ matches[2].address = 1

\* C2: region cleanup -- after a filter call every region the scanner still
\* holds contains the address of at least one surviving match, and with no
\* match left the scanner holds no region.
C2_RegionCleanup ==
    lastOp = "filter" =>
        /\ \A i \in 1..Len(regions) :
              \E k \in 1..Len(matches) :
                 /\ matches[k].address >= regions[i].base_address
                 /\ matches[k].address < regions[i].base_address + regions[i].size
        /\ (matches = <<>> => regions = <<>>)

\* of two adjacent regions only the second is kept: its first byte holds the
\* only match that survived a filter
C2_Witness ==
    /\ lastOp = "filter"
    /\ regions = <<Region(2, 1)>>
    /\ Len(matches) = 1 /\ matches[1].address = 2
    /\ matches[1].previous_value # None

\* the match list initial_scan must produce for one fully readable region of
\* n bytes: floor((n - size) / a) + 1 addresses base, base + a, ...
DensityCount(n, size, a) == IF size <= n THEN ((n - size) \div a) + 1 ELSE 0

\* C3: initial scan density -- with exactly one fully readable region of N
\* bytes and alignment A >= 1, initial_scan replaces the matches by exactly
\* floor((N - size(T)) / A) + 1 matches (none when size(T) > N) at base,
\* base + A, base + 2A, ... in ascending order, each without previous value.
C3_InitialScanDensity ==
    (/\ lastOp = "initial_scan"
     /\ Len(regions) = 1
     /\ alignment >= 1
     /\ \A a \in regions[1].base_address ..
                  (regions[1].base_address + regions[1].size - 1) : Readable(a))
    => /\ Len(matches) = DensityCount(regions[1].size, TypeSize(value_type), alignment)
       /\ \A k \in 1..Len(matches) :
             /\ matches[k].address = regions[1].base_address + (k - 1) * alignment
             /\ matches[k].previous_value = None

\* an I8 scan with alignment 2 of a three byte region: offsets 0 and 2
C3_Witness ==
    /\ lastOp = "initial_scan"
    /\ regions = <<Region(0, 3)>> /\ value_type = "I8" /\ alignment = 2
    /\ Len(matches) = 2
    /\ matches[1].address = 0 /\ matches[2].address = 2
    /\ \A k \in 1..Len(matches) : matches[k].previous_value = None

(***************************************************************************)
(* OS adapters: what the OS reports about the target's address space.      *)
(* osTiles is a sequence of consecutive address ranges starting at address *)
(* 0, each TileSize long.  On Windows every tile is a region answered by   *)
(* VirtualQueryEx (free and reserved ranges included) and the query fails  *)
(* past the last tile; on Linux the tiles other than "gap" are the lines   *)
(* of /proc/pid/maps.                                                      *)
(***************************************************************************)
TileSize == 2
UsizeMax == 1000          \* usize::MAX, above every modelled address
min_app_addr == 0

PAGE_NOACCESS == 1
PAGE_READONLY == 2
PAGE_READWRITE == 4
PAGE_WRITECOPY == 8
PAGE_EXECUTE == 16
PAGE_EXECUTE_READ == 32
PAGE_EXECUTE_READWRITE == 64
PAGE_EXECUTE_WRITECOPY == 128
PAGE_GUARD == 256
PAGE_NOCACHE == 512
MEM_COMMIT == 4096
MEM_RESERVE == 8192
MEM_FREE == 65536

\* x & mask != 0 on DWORDs
BitIsSet(x, k) == (x \div Pow2(k)) % 2 = 1
AndNonZero(x, mask) == \E k \in 0..16 : BitIsSet(x, k) /\ BitIsSet(mask, k)

\* impl From<u32> for MemoryProtection
ProtectionFromU32(protect) ==
    [no_access |-> AndNonZero(protect, PAGE_NOACCESS),
     read |-> AndNonZero(protect, PAGE_READONLY + PAGE_READWRITE + PAGE_WRITECOPY
                                  + PAGE_EXECUTE_READ + PAGE_EXECUTE_READWRITE
                                  + PAGE_EXECUTE_WRITECOPY),
     write |-> AndNonZero(protect, PAGE_READWRITE + PAGE_WRITECOPY
                                   + PAGE_EXECUTE_READWRITE + PAGE_EXECUTE_WRITECOPY),
     execute |-> AndNonZero(protect, PAGE_EXECUTE + PAGE_EXECUTE_READ
                                     + PAGE_EXECUTE_READWRITE + PAGE_EXECUTE_WRITECOPY),
     copy_on_write |-> AndNonZero(protect, PAGE_WRITECOPY + PAGE_EXECUTE_WRITECOPY),
     guarded |-> AndNonZero(protect, PAGE_GUARD),
     no_cache |-> AndNonZero(protect, PAGE_NOCACHE)]

\* impl From<u32> for MemoryState
StateFromU32(state) ==
    [committed |-> AndNonZero(state, MEM_COMMIT),
     free |-> AndNonZero(state, MEM_FREE),
     reserved |-> AndNonZero(state, MEM_RESERVE)]

\* perms_to_protection: the rwx columns of a /proc/pid/maps line
perms_to_protection(perms) ==
    [no_access |-> FALSE,
     read |-> IF Len(perms) >= 1 THEN perms[1] = "r" ELSE FALSE,
     write |-> IF Len(perms) >= 2 THEN perms[2] = "w" ELSE FALSE,
     execute |-> IF Len(perms) >= 3 THEN perms[3] = "x" ELSE FALSE,
     copy_on_write |-> FALSE,
     guarded |-> FALSE,
     no_cache |-> FALSE]

\* the MemoryState parse_proc_maps gives every line
LinuxState == [committed |-> TRUE, free |-> FALSE, reserved |-> FALSE]

\* the kinds of range each OS can report
WinKinds == {"rw", "noaccess", "guard", "x", "free", "reserved"}
LinuxKinds == {"gap", "rw-p", "r-xp", "---p"}

\* MEMORY_BASIC_INFORMATION.Protect and .State of a Windows tile
WinProtect(kind) ==
    CASE kind = "rw" -> PAGE_READWRITE
      [] kind = "noaccess" -> PAGE_NOACCESS
      [] kind = "guard" -> PAGE_READWRITE + PAGE_GUARD
      [] kind = "x" -> PAGE_EXECUTE
      [] kind = "free" -> PAGE_NOACCESS
      [] OTHER -> 0

WinState(kind) ==
    CASE kind = "free" -> MEM_FREE
      [] kind = "reserved" -> MEM_RESERVE
      [] OTHER -> MEM_COMMIT

\* the perms column of a Linux tile
LinuxPerms(kind) ==
    CASE kind = "rw-p" -> <<"r", "w", "-", "p">>
      [] kind = "r-xp" -> <<"r", "-", "x", "p">>
      [] OTHER -> <<"-", "-", "-", "p">>

TileBase(i) == (i - 1) * TileSize
TilesEnd(tiles) == Len(tiles) * TileSize

MemoryRegion(b, sz, prot, st) ==
    [base_address |-> b, size |-> sz, protect |-> prot, state |-> st]

saturating_add(a, b) == IF a + b > UsizeMax THEN UsizeMax ELSE a + b

\* a predicate that forgets the guard flag
is_region_interesting_noguard(prot, state) ==
    IF ~state.committed \/ state.free \/ state.reserved \/ prot.no_access
    THEN FALSE ELSE TRUE

\* is_region_interesting
is_region_interesting(prot, state) ==
    IF ~state.committed \/ state.free \/ state.reserved \/ prot.no_access \/ prot.guarded
    THEN FALSE ELSE TRUE

\* the result of one memory_region_iterator_next call:
\* the region it returns (or None) and the new cur_addr
StepResult(region, cur) == [region |-> region, cur |-> cur]

\* windows::process::memory_region_iterator_next
win_memory_region_iterator_next(tiles, cur) ==
    IF cur >= TilesEnd(tiles)
    THEN StepResult(None, cur)           \* VirtualQueryEx returned 0
    ELSE LET i == (cur \div TileSize) + 1
             region_base == TileBase(i)
             region_size == TileSize
             prot == ProtectionFromU32(WinProtect(tiles[i]))
             state == StateFromU32(WinState(tiles[i]))
             next_addr == saturating_add(region_base, region_size)
         IN  IF is_region_interesting(prot, state)
             THEN StepResult(Some(MemoryRegion(region_base, region_size, prot, state)),
                             next_addr)
             ELSE StepResult(None, next_addr)

\* ProcessHandleUnix.maps: the parsed lines, sorted by base address
RECURSIVE LinuxMapsFrom(_, _)
LinuxMapsFrom(tiles, i) ==
    IF i > Len(tiles) THEN <<>>
    ELSE (IF tiles[i] = "gap" THEN <<>>
          ELSE <<MemoryRegion(TileBase(i), TileSize,
                              perms_to_protection(LinuxPerms(tiles[i])), LinuxState)>>)
         \o LinuxMapsFrom(tiles, i + 1)

parse_proc_maps(tiles) == LinuxMapsFrom(tiles, 1)

\* a search that starts after cur: the map that begins exactly at cur is
\* passed over
linux_next_past_cur(tiles, cur) ==
    LET maps == parse_proc_maps(tiles)
        idx == Cardinality({j \in 1..Len(maps) : maps[j].base_address <= cur}) + 1
    IN  IF idx > Len(maps)
        THEN StepResult(None, UsizeMax)
        ELSE LET m == maps[idx]
                 next_addr == saturating_add(m.base_address, m.size)
             IN  IF is_region_interesting(m.protect, m.state)
                 THEN StepResult(Some(m), next_addr)
                 ELSE StepResult(None, next_addr)

\* linux::process::memory_region_iterator_next; the binary search over the
\* sorted maps gives the index of the first map whose base is >= cur
linux_memory_region_iterator_next(tiles, cur) ==
    LET maps == parse_proc_maps(tiles)
        idx == Cardinality({j \in 1..Len(maps) : maps[j].base_address < cur}) + 1
    IN  IF idx > Len(maps)
        THEN StepResult(None, UsizeMax)
        ELSE LET m == maps[idx]
                 next_addr == saturating_add(m.base_address, m.size)
             IN  IF is_region_interesting(m.protect, m.state)
                 THEN StepResult(Some(m), next_addr)
                 ELSE StepResult(None, next_addr)

\* process::memory_region_iterator_next
memory_region_iterator_next(pf, tiles, cur) ==
    IF pf = "windows" THEN win_memory_region_iterator_next(tiles, cur)
    ELSE linux_memory_region_iterator_next(tiles, cur)

\* MemoryRegionIterator::next: the while loop.  An iteration that returns no
\* region and leaves cur_addr where it was repeats for ever: the call does
\* not return ("hang").
RECURSIVE IteratorNext(_, _, _, _)
IteratorNext(pf, tiles, cur, max) ==
    IF ~(cur < max) THEN [outcome |-> "none", region |-> None, cur |-> cur]
    ELSE LET r == memory_region_iterator_next(pf, tiles, cur)
         IN  IF r.region # None
             THEN [outcome |-> "some", region |-> r.region, cur |-> r.cur]
             ELSE IF r.cur = cur
                  THEN [outcome |-> "hang", region |-> None, cur |-> cur]
                  ELSE IteratorNext(pf, tiles, r.cur, max)

\* a containment test that looks at the base address only
is_superset_of_base_only(self, other) ==
    /\ self.base_address <= other.base_address
    /\ self.base_address + self.size > other.base_address

\* MemoryRegion::is_superset_of
is_superset_of(self, other) ==
    /\ self.base_address <= other.base_address
    /\ self.base_address + self.size >= other.base_address + other.size

\* the loop body of Repl::new (and of scan_process): is the region skipped
IsModuleRegion(mods, region) ==
    \E i \in 1..Len(mods) : is_superset_of(mods[i], region)

\* module lists handed to the collector
ModuleLists ==
    { <<>>,
      <<Region(0, 2)>>,
      <<Region(0, 3)>>,
      <<Region(1, 4)>>,
      <<Region(0, 2), Region(4, 2)>> }

RECURSIVE TileSeqs(_, _)
TileSeqs(kinds, n) ==
    IF n = 0 THEN {<<>>}
    ELSE LET shorter == TileSeqs(kinds, n - 1)
         IN  shorter \cup {Append(t, k) : t \in {u \in shorter : Len(u) = n - 1}, k \in kinds}

\* MemoryRegionIterator::new(proc, sys) at the start of Repl::new.  Linux:
\* query_system_info gives 0 .. usize::MAX.  Windows: the maximum
\* application address lies inside the last range the OS answers for, or
\* past it when the OS stops answering early.
InitIter ==
    /\ platform \in Platforms
    /\ osTiles \in TileSeqs(IF platform = "windows" THEN WinKinds ELSE LinuxKinds, MaxTiles)
    /\ max_addr \in IF platform = "linux" THEN {UsizeMax}
                    ELSE {x \in {TilesEnd(osTiles) - 1, TilesEnd(osTiles) + 1} : x > 0}
    /\ cur_addr = min_app_addr
    /\ itState = "iterating"
    /\ yielded = <<>>
    /\ modules \in ModuleLists
    /\ all_modules \in BOOLEAN
    /\ collected = <<>>
    /\ mem = <<>> /\ readablePages = {} /\ regions = <<>>
    /\ matches = <<>> /\ value_type = "I8" /\ alignment = 1 /\ scanState = "idle"
    /\ lastOp = "none"
    /\ diffIdle /\ arithIdle /\ extIdle

\* one iteration of the for loop of Repl::new: next() returns a region, which
\* is pushed unless it lies inside a module
CollectRegion ==
    /\ itState = "iterating"
    /\ LET n == IteratorNext(platform, osTiles, cur_addr, max_addr)
       IN  /\ n.outcome = "some"
           /\ cur_addr' = n.cur
           /\ yielded' = Append(yielded, n.region[1])
           /\ collected' = IF ~all_modules /\ IsModuleRegion(modules, n.region[1])
                           THEN collected
                           ELSE Append(collected, n.region[1])
    /\ UNCHANGED <<osTiles, max_addr, itState, modules, all_modules>>

\* next() returns None: the for loop ends
CollectEnd ==
    /\ itState = "iterating"
    /\ LET n == IteratorNext(platform, osTiles, cur_addr, max_addr)
       IN  /\ n.outcome = "none"
           /\ cur_addr' = n.cur
    /\ itState' = "done"
    /\ UNCHANGED <<osTiles, max_addr, yielded, modules, all_modules, collected>>

\* next() never returns
CollectHang ==
    /\ itState = "iterating"
    /\ LET n == IteratorNext(platform, osTiles, cur_addr, max_addr)
       IN  /\ n.outcome = "hang"
           /\ cur_addr' = n.cur
    /\ itState' = "hung"
    /\ UNCHANGED <<osTiles, max_addr, yielded, modules, all_modules, collected>>

NextIter ==
    \/ CollectRegion /\ UNCHANGED <<scanVars, diffVars, arithVars, extVars>>
    \/ CollectEnd /\ UNCHANGED <<scanVars, diffVars, arithVars, extVars>>
    \/ CollectHang /\ UNCHANGED <<scanVars, diffVars, arithVars, extVars>>

SpecIter == InitIter /\ [][NextIter]_vars

(***************************************************************************)
(* Claims about the region iterator and the region collection (SpecIter).  *)
(***************************************************************************)

\* C4: the iterator never yields a region whose protection has no_access or
\* guarded set, or whose state has free or reserved set or committed unset,
\* whatever sequence of regions the OS reports.
C4_OnlyInterestingYielded ==
    \A i \in 1..Len(yielded) :
        /\ ~yielded[i].protect.no_access
        /\ ~yielded[i].protect.guarded
        /\ ~yielded[i].state.free
        /\ ~yielded[i].state.reserved
        /\ yielded[i].state.committed

\* a guard page was skipped and the committed range after it was yielded
C4_Witness ==
    /\ platform = "windows"
    /\ Len(osTiles) >= 2 /\ osTiles[1] = "guard" /\ osTiles[2] = "rw"
    /\ Len(yielded) = 1 /\ yielded[1].base_address = TileBase(2)

\* C5: the iterator terminates -- every call of next() returns, and it
\* returns None once cur_addr >= max_app_addr or once the OS reports no
\* further mapping at cur_addr (the region query fails, or the map list is
\* exhausted), on both adapters.
C5_IteratorTerminates == itState # "hung"

\* what must be collected: the yielded regions that no module contains
NotInModule(r) ==
    ~\E i \in 1..Len(modules) :
        /\ modules[i].base_address <= r.base_address
        /\ modules[i].base_address + modules[i].size >= r.base_address + r.size

\* C6: module-region exclusion -- with all_modules = false the collected
\* region list is exactly the regions the iterator yielded that are not
\* contained in any module region, in iteration order; with all_modules =
\* true it is every yielded region.
C6_ModuleExclusion ==
    itState = "done" =>
        collected = IF all_modules THEN yielded ELSE SelectSeq(yielded, NotInModule)

\* a module covers the first region and only a part of the second: the
\* first is dropped, the second is kept
C6_Witness ==
    /\ itState = "done" /\ ~all_modules
    /\ modules = <<Region(0, 3)>>
    /\ Len(yielded) = 2 /\ Len(collected) = 1
    /\ collected[1].base_address = TileBase(2)

(***************************************************************************)
(* Snapshot diffing (diff.rs).  A snapshot is its backing (a borrowed      *)
(* slice, a mapping or a process region), the address that identifies the  *)
(* backing (the slice pointer, or the remote base address) and its bytes.  *)
(***************************************************************************)
Backings == {"Slice", "Mapped", "Process"}
SnapAddrs == {16, 32}

Snapshot(backing, addr, data) == [backing |-> backing, addr |-> addr, data |-> data]

\* MemoryRegionSnapshot::base_address
base_address(snap) ==
    CASE snap.backing = "Slice" -> snap.addr       \* slice.as_ptr()
      [] snap.backing = "Mapped" -> snap.addr      \* mapped.remote_region.base_address
      [] OTHER -> snap.addr                        \* region.base_address

MemoryChange(a, old, new) == [address |-> a, old_value |-> old, new_value |-> new]

\* a loop that stores the two bytes the wrong way round
RECURSIVE DiffLoopSwapped(_, _, _, _)
DiffLoopSwapped(old_data, new_data, base, offset) ==
    IF offset >= Len(old_data) \/ offset >= Len(new_data) THEN <<>>
    ELSE (IF old_data[offset + 1] # new_data[offset + 1]
          THEN <<MemoryChange(base + offset, new_data[offset + 1], old_data[offset + 1])>>
          ELSE <<>>)
         \o DiffLoopSwapped(old_data, new_data, base, offset + 1)

\* the for loop of diff_snapshots over old.data zipped with new.data
RECURSIVE DiffLoop(_, _, _, _)
DiffLoop(old_data, new_data, base, offset) ==
    IF offset >= Len(old_data) \/ offset >= Len(new_data) THEN <<>>
    ELSE (IF old_data[offset + 1] # new_data[offset + 1]
          THEN <<MemoryChange(base + offset, old_data[offset + 1], new_data[offset + 1])>>
          ELSE <<>>)
         \o DiffLoop(old_data, new_data, base, offset + 1)

\* a diff that only compares the lengths before looping
diff_snapshots_any_base(old, new) ==
    IF Len(old.data) # Len(new.data)
    THEN <<>>
    ELSE DiffLoop(old.data, new.data, base_address(old), 0)

\* diff_snapshots
diff_snapshots(old, new) ==
    IF base_address(old) # base_address(new) \/ Len(old.data) # Len(new.data)
    THEN <<>>
    ELSE DiffLoop(old.data, new.data, base_address(old), 0)

RECURSIVE ByteSeqs(_)
ByteSeqs(n) ==
    IF n = 0 THEN {<<>>}
    ELSE LET shorter == ByteSeqs(n - 1)
         IN  shorter \cup {Append(d, b) : d \in {e \in shorter : Len(e) = n - 1}, b \in ByteVals}

Snapshots ==
    {Snapshot(k, a, d) : k \in Backings, a \in SnapAddrs, d \in ByteSeqs(MaxDataLen)}

InitDiff ==
    /\ snapOld \in {Some(x) : x \in Snapshots}
    /\ snapNew \in {Some(x) : x \in Snapshots}
    /\ changes = <<>>
    /\ diffDone = FALSE
    /\ platform = "any" /\ mem = <<>> /\ readablePages = {} /\ regions = <<>>
    /\ matches = <<>> /\ value_type = "I8" /\ alignment = 1 /\ scanState = "idle"
    /\ lastOp = "none"
    /\ iterIdle /\ arithIdle /\ extIdle

\* a call diff_snapshots(&old, &new)
DiffSnapshots ==
    /\ ~diffDone
    /\ changes' = diff_snapshots(snapOld[1], snapNew[1])
    /\ diffDone' = TRUE
    /\ UNCHANGED <<snapOld, snapNew>>

NextDiff == DiffSnapshots /\ UNCHANGED <<scanVars, iterVars, arithVars, extVars>>

SpecDiff == InitDiff /\ [][NextDiff]_vars

\* the offsets at which two equally long byte sequences differ
DifferingOffsets(a, b) == {i \in 0..(Len(a) - 1) : a[i + 1] # b[i + 1]}

\* C7: for two snapshots with the same base address and the same length the
\* diff is exactly one MemoryChange {base + i, a[i], b[i]} per differing
\* offset i, in strictly ascending address order; so its length is the
\* number of differing bytes, and a snapshot diffed with itself gives [].
C7_DiffExact ==
    (/\ diffDone
     /\ snapOld[1].addr = snapNew[1].addr
     /\ Len(snapOld[1].data) = Len(snapNew[1].data))
    => LET a == snapOld[1].data
           b == snapNew[1].data
           base == snapOld[1].addr
       IN  /\ Len(changes) = Cardinality(DifferingOffsets(a, b))
           /\ \A k \in 1..Len(changes) :
                 LET i == changes[k].address - base
                 IN  /\ i \in DifferingOffsets(a, b)
                     /\ changes[k].old_value = a[i + 1]
                     /\ changes[k].new_value = b[i + 1]
           /\ \A k \in 1..(Len(changes) - 1) :
                 changes[k].address < changes[k + 1].address
           /\ (a = b => changes = <<>>)

\* two of three bytes changed
C7_Witness ==
    /\ diffDone
    /\ snapOld[1].addr = snapNew[1].addr
    /\ Len(snapOld[1].data) = 3 /\ Len(snapNew[1].data) = 3
    /\ Len(changes) = 2
    /\ changes[1].address = snapOld[1].addr /\ changes[2].address = snapOld[1].addr + 2

\* C8: base-mismatch safety -- snapshots that differ in base_address() or
\* in data length diff to the empty list whatever their contents; so do
\* two slice-backed snapshots of two distinct slices whose bytes differ.
C8_BaseMismatchEmpty ==
    (/\ diffDone
     /\ \/ snapOld[1].addr # snapNew[1].addr
        \/ Len(snapOld[1].data) # Len(snapNew[1].data))
    => changes = <<>>

\* two distinct slices of equal length and different bytes
C8_Witness ==
    /\ diffDone
    /\ snapOld[1].backing = "Slice" /\ snapNew[1].backing = "Slice"
    /\ snapOld[1].addr # snapNew[1].addr
    /\ Len(snapOld[1].data) = Len(snapNew[1].data)
    /\ snapOld[1].data # snapNew[1].data
    /\ changes = <<>>

(***************************************************************************)
(* Typed arithmetic (values.rs): apply_math_op on the 8 and 16 bit integer *)
(* variants.  The wider and the floating-point variants are outside the    *)
(* model.                                                                  *)
(***************************************************************************)
MathOps == {"Add", "Subtract", "Multiply", "Divide"}

TypeMin(t) == IF IsSigned(t) THEN -Pow2(BitWidth(t) - 1) ELSE 0
TypeMax(t) == IF IsSigned(t) THEN Pow2(BitWidth(t) - 1) - 1 ELSE Pow2(BitWidth(t)) - 1

Abs(x) == IF x < 0 THEN -x ELSE x

\* arithmetic that clamps at the bounds of the type
Saturate(x, t) ==
    IF x > TypeMax(t) THEN TypeMax(t) ELSE IF x < TypeMin(t) THEN TypeMin(t) ELSE x

\* the value a wrapping_* primitive keeps of the exact result x
Wrap(x, t) ==
    IF IsSigned(t)
    THEN ((x + Pow2(BitWidth(t) - 1)) % Pow2(BitWidth(t))) - Pow2(BitWidth(t) - 1)
    ELSE x % Pow2(BitWidth(t))

\* integer division as the hardware does it: the quotient is rounded
\* toward zero
TruncDiv(a, b) ==
    IF (a < 0) = (b < 0) THEN Abs(a) \div Abs(b) ELSE -(Abs(a) \div Abs(b))

MathOk(v) == [kind |-> "ok", value |-> Some(v)]
MathErr == [kind |-> "err", value |-> None]       \* Err("Type mismatch ...")
MathPanic == [kind |-> "panic", value |-> None]   \* the thread aborts

\* iN::wrapping_div / uN::wrapping_div: panics when the divisor is zero
wrapping_div(a, b, t) ==
    IF b = 0 THEN MathPanic
    ELSE MathOk(Val(t, Wrap(TruncDiv(a, b), t)))

\* arithmetic that takes the operand's number whatever its variant
apply_math_op_untyped(a, b, op) ==
    CASE op = "Add" -> MathOk(Val(a.t, Wrap(a.v + b.v, a.t)))
      [] op = "Subtract" -> MathOk(Val(a.t, Wrap(a.v - b.v, a.t)))
      [] op = "Multiply" -> MathOk(Val(a.t, Wrap(a.v * b.v, a.t)))
      [] op = "Divide" -> wrapping_div(a.v, b.v, a.t)

\* apply_math_op(a, b, op)
apply_math_op(a, b, op) ==
    IF a.t # b.t THEN MathErr
    ELSE CASE op = "Add" -> MathOk(Val(a.t, Wrap(a.v + b.v, a.t)))
           [] op = "Subtract" -> MathOk(Val(a.t, Wrap(a.v - b.v, a.t)))
           [] op = "Multiply" -> MathOk(Val(a.t, Wrap(a.v * b.v, a.t)))
           [] op = "Divide" -> wrapping_div(a.v, b.v, a.t)

Operands ==
    {Val("I8", v) : v \in {-128, -1, 0, 1, 3, 10, 127}}
    \cup {Val("U8", v) : v \in {0, 1, 3, 10, 255}}
    \cup {Val("I16", v) : v \in {-32768, -1, 0, 3, 10, 32767}}
    \cup {Val("U16", v) : v \in {0, 1, 3, 256, 40000}}

InitArith ==
    /\ opA \in {Some(x) : x \in Operands}
    /\ opB \in {Some(x) : x \in Operands}
    /\ mathOp \in MathOps
    /\ mathResult = None
    /\ platform = "any" /\ mem = <<>> /\ readablePages = {} /\ regions = <<>>
    /\ matches = <<>> /\ value_type = "I8" /\ alignment = 1 /\ scanState = "idle"
    /\ lastOp = "none"
    /\ iterIdle /\ diffIdle /\ extIdle

\* a call apply_math_op(&a, &b, op)
Apply ==
    /\ mathResult = None
    /\ mathResult' = Some(apply_math_op(opA[1], opB[1], mathOp))
    /\ UNCHANGED <<opA, opB, mathOp>>

NextArith == Apply /\ UNCHANGED <<scanVars, iterVars, diffVars, extVars>>

SpecArith == InitArith /\ [][NextArith]_vars

\* the exact (unbounded) result of Add, Subtract, Multiply
Exact(a, b, op) ==
    CASE op = "Add" -> a + b
      [] op = "Subtract" -> a - b
      [] OTHER -> a * b

\* C9: typed integer arithmetic wraps -- for same-variant integer operands
\* of bit width w, Add, Subtract and Multiply give the exact result reduced
\* modulo 2^w into the range of the type; Divide by a non-zero divisor
\* rounds toward zero, and signed MIN divided by -1 gives MIN.
C9_WrappingArithmetic ==
    (/\ mathResult # None
     /\ opA[1].t = opB[1].t
     /\ ~(mathOp = "Divide" /\ opB[1].v = 0))
    => LET t == opA[1].t
           a == opA[1].v
           b == opB[1].v
           r == mathResult[1]
           q == r.value[1].v
       IN  /\ r.kind = "ok"
           /\ r.value[1].t = t
           /\ q >= TypeMin(t) /\ q <= TypeMax(t)
           /\ mathOp # "Divide" =>
                 (q - Exact(a, b, mathOp)) % Pow2(BitWidth(t)) = 0
           /\ (mathOp = "Divide" /\ a = TypeMin(t) /\ b = -1) => q = TypeMin(t)
           /\ (mathOp = "Divide" /\ ~(a = TypeMin(t) /\ b = -1)) =>
                 /\ Abs(q) * Abs(b) <= Abs(a)
                 /\ Abs(a) < (Abs(q) + 1) * Abs(b)
                 /\ (q > 0 => (a < 0) = (b < 0))
                 /\ (q < 0 => (a < 0) # (b < 0))

\* U8(255) + U8(1) = U8(0)
C9_Witness ==
    /\ mathResult # None
    /\ opA = Some(Val("U8", 255)) /\ opB = Some(Val("U8", 1)) /\ mathOp = "Add"
    /\ mathResult[1] = MathOk(Val("U8", 0))

\* C10: typed arithmetic is total -- for every op and every pair of
\* operands, a zero divisor included, apply returns a Value or an error
\* value and never aborts.
C10_ApplyTotal ==
    mathResult # None => mathResult[1].kind \in {"ok", "err"}

(***************************************************************************)
(* Value encoding (values.rs): to_bytes and its inverse from_bytes.        *)
(* The values are those the checker's 32-bit integers can hold: all of     *)
(* I8 and U8, boundary values of I16, U16 and I32, and the lower half of   *)
(* U32; the 64-bit and floating-point variants are outside the model.      *)
(***************************************************************************)
I32Min == -2147483647 - 1

\* an encoding that puts the most significant byte first
to_be_bytes(v, n) == [i \in 1..n |-> (v \div Pow2(8 * (n - i))) % 256]

\* iN::to_le_bytes / uN::to_le_bytes: n bytes of the two's complement
\* representation, least significant first
to_le_bytes(v, n) == [i \in 1..n |-> (v \div Pow2(8 * (i - 1))) % 256]

\* Value::to_bytes
to_bytes(val) == to_le_bytes(val.v, TypeSize(val.t))

ConvValues ==
    {Val("I8", x) : x \in -128..127}
    \cup {Val("U8", x) : x \in 0..255}
    \cup {Val("I16", x) : x \in {-32768, -32767, -257, -256, -255, -129, -128,
                                 -1, 0, 1, 127, 128, 255, 256, 4660, 32767}}
    \cup {Val("U16", x) : x \in {0, 1, 255, 256, 257, 4660, 32767, 32768, 65535}}
    \cup {Val("I32", x) : x \in {I32Min, I32Min + 1, -16777216, -65536, -1, 0, 1,
                                 65535, 65536, 305419896, 2147483647}}
    \cup {Val("U32", x) : x \in {0, 1, 65536, 305419896, 2147483647}}

InitConv ==
    /\ cvValue \in ConvValues
    /\ cvBytes = None
    /\ cvBack = None
    /\ scanIdle /\ iterIdle /\ diffIdle /\ arithIdle
    /\ patIdle /\ hexIdle /\ mapIdle /\ writeIdle /\ cpIdle

\* let bytes = value.to_bytes()
Encode ==
    /\ cvBytes = None
    /\ cvBytes' = Some(to_bytes(cvValue))
    /\ UNCHANGED <<cvValue, cvBack>>

\* Value::from_bytes(&bytes, 0, T)
Decode ==
    /\ cvBytes # None /\ cvBack = None
    /\ cvBack' = Some(from_bytes(cvBytes[1], 0, cvValue.t))
    /\ UNCHANGED <<cvValue, cvBytes>>

convFrame ==
    UNCHANGED <<scanVars, iterVars, diffVars, arithVars,
                patVars, hexVars, mapVars, writeVars, cpVars>>

NextConv ==
    \/ Encode /\ convFrame
    \/ Decode /\ convFrame

SpecConv == InitConv /\ [][NextConv]_vars

\* C11: Value round-trip.  to_bytes produces exactly T.size() bytes, least
\* significant byte first (the first byte is the value modulo 256 and the
\* sign of a signed value sits in the top bit of the last byte), and
\* from_bytes(to_bytes(Value::T(x)), 0, T) returns Some(Value::T(x)).
C11_RoundTrip ==
    /\ cvBytes # None =>
          /\ Len(cvBytes[1]) = TypeSize(cvValue.t)
          /\ \A i \in 1..Len(cvBytes[1]) : cvBytes[1][i] \in 0..255
          /\ cvBytes[1][1] = cvValue.v % 256
          /\ (cvValue.v < 0) <=> (IsSigned(cvValue.t) /\ cvBytes[1][Len(cvBytes[1])] >= 128)
    /\ cvBack # None => cvBack[1] = Some(cvValue)

C11_Witness ==
    /\ cvBack # None
    /\ cvValue = Val("I32", -65536)
    /\ cvBytes[1] = <<0, 0, 255, 255>>

(***************************************************************************)
(* Pattern search (scanner.rs): naive_search and the per-region search     *)
(* loop of scan_process over a mapped region's buffer.                     *)
(***************************************************************************)
MaxHay == 4         \* buffers hold at most this many bytes
MaxNeedle == 3      \* patterns hold at most this many bytes

\* the slice haystack[from..to] (offsets from 0, `to` exclusive)
Slice(h, from, to) == SubSeq(h, from + 1, to)

\* a search loop that stops one position early: `for i in 0..len - nlen`
RECURSIVE NaiveLoopExclusive(_, _, _)
NaiveLoopExclusive(h, n, i) ==
    IF i >= Len(h) - Len(n) THEN None
    ELSE IF Slice(h, i, i + Len(n)) = n THEN Some(i)
    ELSE NaiveLoopExclusive(h, n, i + 1)

\* `for i in 0..=haystack.len() - needle.len()`
RECURSIVE NaiveLoop(_, _, _)
NaiveLoop(h, n, i) ==
    IF i > Len(h) - Len(n) THEN None
    ELSE IF Slice(h, i, i + Len(n)) = n THEN Some(i)
    ELSE NaiveLoop(h, n, i + 1)

naive_search(h, n) ==
    IF n = <<>> \/ Len(n) > Len(h) THEN None ELSE NaiveLoop(h, n, 0)

\* a scan that resumes after the whole hit
NextOffsetPastHit(off, rel_off, plen) == off + rel_off + plen

\* `prev_off += rel_off + 1`
NextOffset(off, rel_off, plen) == off + rel_off + 1

RECURSIVE SeqsUpTo(_, _)
SeqsUpTo(S, n) ==
    IF n = 0 THEN {<<>>}
    ELSE LET shorter == SeqsUpTo(S, n - 1)
         IN  shorter \cup {Append(q, b) : q \in {x \in shorter : Len(x) = n - 1}, b \in S}

RegionBases == {0, 16}

\* scan_process has mapped a region (memory_slice = haystack) and enters
\* the search loop with prev_off = 0
InitPattern ==
    /\ haystack \in SeqsUpTo(ByteVals, MaxHay)
    /\ needle \in SeqsUpTo(ByteVals, MaxNeedle)
    /\ regionBase \in RegionBases
    /\ searchResult = None
    /\ prev_off = 0
    /\ scanHits = <<>>
    /\ scanPc = "loop"
    /\ mappedReport = None /\ pagedReport = None
    /\ scanIdle /\ iterIdle /\ diffIdle /\ arithIdle
    /\ convIdle /\ hexIdle /\ mapIdle /\ writeIdle /\ cpIdle

\* a call of naive_search(haystack, needle)
NaiveSearch ==
    /\ searchResult = None
    /\ searchResult' = Some(naive_search(haystack, needle))
    /\ UNCHANGED <<haystack, needle, regionBase, prev_off, scanHits, scanPc,
                   mappedReport, pagedReport>>

\* one evaluation of `while prev_off < memory_slice.len()` and its body
ScanIteration ==
    /\ scanPc = "loop"
    /\ IF prev_off < Len(haystack)
       THEN LET found == naive_search(Slice(haystack, prev_off, Len(haystack)), needle)
            IN  IF found # None
                THEN /\ scanHits' = Append(scanHits, regionBase + prev_off + found[1])
                     /\ prev_off' = NextOffset(prev_off, found[1], Len(needle))
                     /\ UNCHANGED scanPc
                ELSE /\ scanPc' = "done"
                     /\ UNCHANGED <<prev_off, scanHits>>
       ELSE /\ scanPc' = "done"
            /\ UNCHANGED <<prev_off, scanHits>>
    /\ UNCHANGED <<haystack, needle, regionBase, searchResult, mappedReport, pagedReport>>

patFrame ==
    UNCHANGED <<scanVars, iterVars, diffVars, arithVars,
                convVars, hexVars, mapVars, writeVars, cpVars>>

NextPattern ==
    \/ NaiveSearch /\ patFrame
    \/ ScanIteration /\ patFrame

SpecPattern == InitPattern /\ [][NextPattern]_vars

\* the offsets at which needle occurs in haystack
Occurrences ==
    {i \in 0..(Len(haystack) - Len(needle)) :
        Slice(haystack, i, i + Len(needle)) = needle}

\* C12: pattern scan completeness.  For a non-empty pattern the finished
\* scan of a mapped buffer has reported exactly base + i for every offset i
\* at which the pattern occurs, once each, ascending, overlapping
\* occurrences included; and the loop terminates: every hit moves prev_off
\* forward and prev_off never passes the end of the buffer.
C12_PatternScanComplete ==
    /\ (scanPc = "done" /\ needle # <<>>) =>
          /\ Len(scanHits) = Cardinality(Occurrences)
          /\ \A k \in 1..Len(scanHits) : (scanHits[k] - regionBase) \in Occurrences
          /\ \A k \in 1..(Len(scanHits) - 1) : scanHits[k] < scanHits[k + 1]
    /\ scanPc # "idle" => Len(scanHits) <= prev_off /\ prev_off <= Len(haystack)

\* two overlapping occurrences were reported
C12_Witness ==
    /\ scanPc = "done"
    /\ Len(needle) = 2
    /\ Len(scanHits) >= 2
    /\ scanHits[2] = scanHits[1] + 1
    /\ regionBase = 16

\* C13: naive_search returns the least index at which needle occurs in
\* haystack, and None when there is no such index, when the needle is longer
\* than the haystack, and when the needle is empty.
C13_NaiveSearchCorrect ==
    searchResult # None =>
        IF needle = <<>> \/ Len(needle) > Len(haystack) \/ Occurrences = {}
        THEN searchResult[1] = None
        ELSE /\ searchResult[1] # None
             /\ searchResult[1][1] \in Occurrences
             /\ \A i \in Occurrences : searchResult[1][1] <= i

\* the only occurrence is at the last possible position
C13_Witness ==
    /\ searchResult # None
    /\ searchResult[1] = Some(2)
    /\ Len(haystack) = 4 /\ Len(needle) = 2

(***************************************************************************)
(* Hex pattern parsing (lib.rs): parse_hex_pattern.  A string is a         *)
(* sequence of characters, each a one-character string; "U+00E9" stands    *)
(* for a character outside ASCII, which takes two bytes in the UTF-8 text  *)
(* that the length test and the slicing count in.                          *)
(***************************************************************************)
MaxHexLen == 4      \* generated inputs hold at most this many characters

HexDigitChars ==
    {"0", "1", "2", "3", "4", "5", "6", "7", "8", "9",
     "a", "b", "c", "d", "e", "f", "A", "B", "C", "D", "E", "F"}

\* char::to_digit(16)
HexValue(c) ==
    CASE c = "0" -> 0 [] c = "1" -> 1 [] c = "2" -> 2 [] c = "3" -> 3
      [] c = "4" -> 4 [] c = "5" -> 5 [] c = "6" -> 6 [] c = "7" -> 7
      [] c = "8" -> 8 [] c = "9" -> 9
      [] c \in {"a", "A"} -> 10 [] c \in {"b", "B"} -> 11
      [] c \in {"c", "C"} -> 12 [] c \in {"d", "D"} -> 13
      [] c \in {"e", "E"} -> 14 [] c \in {"f", "F"} -> 15

\* char::is_whitespace
is_whitespace(c) == c \in {" ", "\t"}

\* char::len_utf8
len_utf8(c) == IF c = "U+00E9" THEN 2 ELSE 1

\* the UTF-8 bytes of a string: each byte remembers its character and
\* whether it is the character's first byte (k = 1) or a continuation
RECURSIVE Utf8(_)
Utf8(cs) ==
    IF cs = <<>> THEN <<>>
    ELSE [k \in 1..len_utf8(Head(cs)) |-> [c |-> Head(cs), k |-> k]] \o Utf8(Tail(cs))

\* str::is_char_boundary(idx), idx counted in bytes from 0
is_char_boundary(bs, idx) == idx = 0 \/ idx = Len(bs) \/ (idx < Len(bs) /\ bs[idx + 1].k = 1)

\* the characters of a byte range that lies on character boundaries
RECURSIVE CharsOf(_)
CharsOf(bs) ==
    IF bs = <<>> THEN <<>>
    ELSE (IF Head(bs).k = 1 THEN <<Head(bs).c>> ELSE <<>>) \o CharsOf(Tail(bs))

RECURSIVE DigitsValue(_, _)
DigitsValue(ds, acc) ==
    IF ds = <<>> THEN acc ELSE DigitsValue(Tail(ds), 16 * acc + HexValue(Head(ds)))

\* u8::from_str_radix(s, 16): an optional leading "+", then hex digits; a
\* lone sign, an empty string and any other character are errors (None)
from_str_radix(cs) ==
    IF cs = <<>> THEN None
    ELSE IF cs[1] \in {"+", "-"} /\ Len(cs) = 1 THEN None
    ELSE LET digits == IF cs[1] = "+" THEN Tail(cs) ELSE cs
         IN  IF \A i \in 1..Len(digits) : digits[i] \in HexDigitChars
             THEN Some(DigitsValue(digits, 0))
             ELSE None

HexOk(bytes) == [kind |-> "ok", bytes |-> bytes]
HexErr == [kind |-> "err", bytes |-> <<>>]
HexPanic == [kind |-> "panic", bytes |-> <<>>]

\* `for i in (0..filtered.len()).step_by(2)`; slicing &filtered[i..i + 2]
\* off a character boundary aborts the thread
RECURSIVE HexLoop(_, _, _)
HexLoop(bs, i, acc) ==
    IF i >= Len(bs) THEN HexOk(acc)
    ELSE IF ~(is_char_boundary(bs, i) /\ is_char_boundary(bs, i + 2)) THEN HexPanic
    ELSE LET b == from_str_radix(CharsOf(SubSeq(bs, i + 1, i + 2)))
         IN  IF b = None THEN HexErr ELSE HexLoop(bs, i + 2, Append(acc, b[1]))

parse_hex_pattern(cs) ==
    LET filtered == Utf8(SelectSeq(cs, LAMBDA c : ~is_whitespace(c)))
    IN  IF Len(filtered) % 2 # 0 THEN HexErr ELSE HexLoop(filtered, 0, <<>>)

HexAlphabet == {"4", "D", "a", " ", "G", "+", "U+00E9"}

HexExamples ==
    { <<"4", "D", " ", "5", "A", " ", "9", "0", " ", "0", "0">>,
      <<"d", "e", "a", "d", "b", "e", "e", "f">>,
      <<"D", "E", "A", "D", "B", "E", "E", "F">>,
      <<"A", "B", "C">>,
      <<"A", "B", "G", "H">> }

InitHex ==
    /\ hexInput \in SeqsUpTo(HexAlphabet, MaxHexLen) \cup HexExamples
    /\ hexResult = None
    /\ scanIdle /\ iterIdle /\ diffIdle /\ arithIdle
    /\ convIdle /\ patIdle /\ mapIdle /\ writeIdle /\ cpIdle

ParseHex ==
    /\ hexResult = None
    /\ hexResult' = Some(parse_hex_pattern(hexInput))
    /\ UNCHANGED hexInput

NextHex ==
    ParseHex /\ UNCHANGED <<scanVars, iterVars, diffVars, arithVars,
                            convVars, patVars, mapVars, writeVars, cpVars>>

SpecHex == InitHex /\ [][NextHex]_vars

\* the input without its whitespace
Stripped(cs) == SelectSeq(cs, LAMBDA c : ~is_whitespace(c))

\* C19: parse_hex_pattern strips all whitespace and then succeeds exactly
\* when the remaining text has even length and consists only of ASCII hex
\* digits, returning one byte per digit pair in order; otherwise (odd
\* length, or a non-hex character anywhere) it returns a parse error.
C19_HexParsing ==
    hexResult # None =>
        LET t == Stripped(hexInput)
            wellFormed == Len(t) % 2 = 0 /\ \A i \in 1..Len(t) : t[i] \in HexDigitChars
        IN  IF wellFormed
            THEN /\ hexResult[1].kind = "ok"
                 /\ hexResult[1].bytes =
                        [k \in 1..(Len(t) \div 2) |->
                            16 * HexValue(t[2 * k - 1]) + HexValue(t[2 * k])]
            ELSE hexResult[1].kind = "err"

\* the examples of the specification parse as it says
HexExamplesParse ==
    /\ parse_hex_pattern(<<"4", "D", " ", "5", "A", " ", "9", "0", " ", "0", "0">>)
           = HexOk(<<77, 90, 144, 0>>)
    /\ parse_hex_pattern(<<"d", "e", "a", "d", "b", "e", "e", "f">>)
           = HexOk(<<222, 173, 190, 239>>)
    /\ parse_hex_pattern(<<"A", "B", "C">>) = HexErr

(***************************************************************************)
(* Region mapper (memmap.rs): MemoryMapper over a target whose pages may   *)
(* become unreadable.  The HashMap keyed by remote base address is the set *)
(* of its values, which holds at most one region per base address.         *)
(***************************************************************************)
\* MappedMemory::map_region succeeds: the whole region was read
\* (linux/memmap.rs: error or partial read fails; windows/memmap.rs: 0 bytes
\* or partial read fails)
MapReadOk(pf, r) ==
    LET n == read_process_memory(pf, r.base_address, r.size)
    IN  n # 0 /\ ~(n < r.size)

\* HashMap::insert(key, value): an entry with the same key is replaced
HashMapInsert(map, r) == {m \in map : m.base_address # r.base_address} \cup {r}

Overlaps(r1, r2) ==
    /\ r1.base_address < r2.base_address + r2.size
    /\ r2.base_address < r1.base_address + r1.size

MapperRegions ==
    {r \in {Region(b, n) : b \in 0..(MaxAddr - 1), n \in 1..MaxAddr} :
        r.base_address + r.size <= MaxAddr}

\* MemoryMapper::new on a freshly opened target
InitMapper ==
    /\ platform \in Platforms
    /\ mem = [a \in 0..(MaxAddr - 1) |-> 0]
    /\ readablePages = AllPages
    /\ regions = <<>> /\ matches = <<>> /\ value_type = "I8" /\ alignment = 1
    /\ scanState = "idle" /\ lastOp = "none"
    /\ mappings = {}
    /\ mapResult = None
    /\ iterIdle /\ diffIdle /\ arithIdle
    /\ convIdle /\ patIdle /\ hexIdle /\ writeIdle /\ cpIdle

\* MemoryMapper::map_region
map_region(r) ==
    LET overlapped == \E m \in mappings : Overlaps(m, r)
    IN  IF MapReadOk(platform, r)
        THEN /\ mappings' = HashMapInsert(mappings, r)
             /\ mapResult' = Some([kind |-> "ok", region |-> r, overlapped |-> overlapped])
        ELSE /\ mapResult' = Some([kind |-> "err", region |-> r, overlapped |-> overlapped])
             /\ UNCHANGED mappings

\* MemoryMapper::clear
MapperClear ==
    /\ mappings # {}
    /\ mappings' = {}
    /\ mapResult' = None

\* the target unmaps or remaps one of its pages
MapperTargetProtect(p) ==
    /\ readablePages' = IF p \in readablePages
                        THEN readablePages \ {p} ELSE readablePages \cup {p}
    /\ UNCHANGED <<mappings, mapResult>>

mapFrame ==
    UNCHANGED <<iterVars, diffVars, arithVars,
                convVars, patVars, hexVars, writeVars, cpVars>>

NextMapper ==
    \/ (\E r \in MapperRegions : map_region(r))
          /\ UNCHANGED <<platform, mem, readablePages, regions, matches, value_type,
                         alignment, scanState, lastOp>> /\ mapFrame
    \/ MapperClear
          /\ UNCHANGED <<platform, mem, readablePages, regions, matches, value_type,
                         alignment, scanState, lastOp>> /\ mapFrame
    \/ (\E p \in AllPages : MapperTargetProtect(p))
          /\ UNCHANGED <<platform, mem, regions, matches, value_type,
                         alignment, scanState, lastOp>> /\ mapFrame

SpecMapper == InitMapper /\ [][NextMapper]_vars

\* C15: region mapper non-overlap.  map_region of a region that overlaps an
\* existing mapping (one with the same base address included) returns an
\* error, so no two entries of the mapper cover a common address.
C15_MapperNonOverlap ==
    /\ mapResult # None => (mapResult[1].overlapped => mapResult[1].kind = "err")
    /\ \A m1, m2 \in mappings : m1 # m2 => ~Overlaps(m1, m2)

(***************************************************************************)
(* Scanner writes (interactive.rs): write_value, write_all, modify_value,  *)
(* modify_all on a target whose pages are unmapped, read-only or           *)
(* read-write.                                                             *)
(***************************************************************************)
Writable(a) == a >= 0 /\ a < MaxAddr /\ (a \div PageSize) \in writablePages

\* write_process_memory(proc, addr, buf): bytes written.  Linux: the handle
\* holds /proc/pid/mem opened with File::open, that is read-only, so
\* write_at fails and 0 is returned.  Windows: WriteProcessMemory fails as a
\* whole unless the entire range is writable, and 0 is returned.
write_process_memory(pf, addr, len) ==
    IF pf = "linux" THEN 0
    ELSE IF \A a \in addr..(addr + len - 1) : Writable(a) THEN len ELSE 0

\* target memory m after write_process_memory(proc, addr, bytes)
MemAfterWrite(m, pf, addr, bytes) ==
    IF write_process_memory(pf, addr, Len(bytes)) < Len(bytes) THEN m
    ELSE [a \in DOMAIN m |->
             IF a >= addr /\ a < addr + Len(bytes) THEN bytes[a - addr + 1] ELSE m[a]]

\* write_value: "ok" | "err"
WriteValueResult(pf, addr, value) ==
    IF write_process_memory(pf, addr, Len(to_bytes(value))) < Len(to_bytes(value))
    THEN "err" ELSE "ok"

\* modify_value on target memory m: the result and the memory afterwards
modify_value_in(m, pf, addr, t, op, operand) ==
    LET bytes_read == read_process_memory(pf, addr, TypeSize(t))
        buffer == [i \in 1..TypeSize(t) |-> m[addr + i - 1]]
        current == from_bytes(buffer, 0, t)
    IN  IF bytes_read < TypeSize(t) THEN [kind |-> "err", mem |-> m, wrote |-> FALSE]
        ELSE IF current = None THEN [kind |-> "err", mem |-> m, wrote |-> FALSE]
        ELSE LET new_value == apply_math_op(current[1], operand, op)
             IN  IF new_value.kind # "ok"
                 THEN [kind |-> new_value.kind, mem |-> m, wrote |-> FALSE]
                 ELSE [kind |-> WriteValueResult(pf, addr, new_value.value[1]),
                       mem |-> MemAfterWrite(m, pf, addr, to_bytes(new_value.value[1])),
                       wrote |-> TRUE]

\* the for loop of write_all: per-match outcomes and the memory afterwards
RECURSIVE WriteAllLoop(_, _, _, _)
WriteAllLoop(m, pf, ms, value) ==
    IF ms = <<>> THEN [results |-> <<>>, mem |-> m]
    ELSE LET r == WriteValueResult(pf, Head(ms).address, value)
             rest == WriteAllLoop(MemAfterWrite(m, pf, Head(ms).address, to_bytes(value)),
                                  pf, Tail(ms), value)
         IN  [results |-> <<r>> \o rest.results, mem |-> rest.mem]

\* the for loop of modify_all; a panic ends the loop (and the thread)
RECURSIVE ModifyAllLoop(_, _, _, _, _, _)
ModifyAllLoop(m, pf, ms, t, op, operand) ==
    IF ms = <<>> THEN [results |-> <<>>, mem |-> m]
    ELSE LET r == modify_value_in(m, pf, Head(ms).address, t, op, operand)
         IN  IF r.kind = "panic" THEN [results |-> <<"panic">>, mem |-> r.mem]
             ELSE LET rest == ModifyAllLoop(r.mem, pf, Tail(ms), t, op, operand)
                  IN  [results |-> <<r.kind>> \o rest.results, mem |-> rest.mem]

\* `written += 1` / `modified += 1` for every is_ok()
RECURSIVE CountOk(_)
CountOk(rs) ==
    IF rs = <<>> THEN 0
    ELSE (IF Head(rs) = "ok" THEN 1 ELSE 0) + CountOk(Tail(rs))

\* a write_value that refreshes the cached value of the written match
MatchesAfterWriteCached(ms, addr, value) ==
    [k \in 1..Len(ms) |->
        IF ms[k].address = addr THEN [ms[k] EXCEPT !.current_value = value] ELSE ms[k]]

\* write_value takes &self: the cached matches stay as they are
MatchesAfterWrite(ms, addr, value) == ms

WriteTypes == {"I8", "U16"}

\* values handed to write_value / write_all: one of the scanner's type and
\* one of another variant
WriteValues(t) == {Val(t, IF IsSigned(t) THEN -1 ELSE 65535), Val("U8", 255)}

\* arguments of modify_value / modify_all: operands 0 and 1 of the scanner's
\* type and an operand of another variant (arithmetic on other operands is
\* the subject of SpecArith)
ModifyArgs(t) ==
    { <<"Add", Val(t, 0)>>, <<"Multiply", Val(t, 0)>>, <<"Divide", Val(t, 0)>>,
      <<"Divide", Val(t, 1)>>, <<"Subtract", Val("U8", 0)>> }

\* addresses handed to write_value / modify_value: the first and the last
\* address of the target and the first address past it
WriteAddrs == {0, MaxAddr - 1, MaxAddr}

WriteRegionLists ==
    { <<Region(0, 3)>>, <<Region(0, 1), Region(2, 1)>> }

\* what the session remembers of the last operation: its name, its result
\* ("ok" | "err" | "panic"), the number it returned or wrote, the per-match
\* outcomes of a bulk operation, the encoded size of the value of a single
\* write, and whether the arguments made the read fail or mismatched the
\* scanner's type
OpRecord(op, kind, n, size, results, readFailed, mismatch) ==
    [op |-> op, kind |-> kind, n |-> n, size |-> size, results |-> results,
     readFailed |-> readFailed, mismatch |-> mismatch]

\* InteractiveScanner::new on a freshly opened target
InitWrite ==
    /\ platform \in Platforms
    /\ mem = [a \in 0..(MaxAddr - 1) |-> 0]
    /\ readablePages = AllPages
    /\ writablePages = AllPages
    /\ regions \in WriteRegionLists
    /\ matches = <<>>
    /\ value_type \in WriteTypes
    /\ alignment = TypeSize(value_type)
    /\ scanState = "ok"
    /\ lastOp = "new"
    /\ opResult = None
    /\ iterIdle /\ diffIdle /\ arithIdle
    /\ convIdle /\ patIdle /\ hexIdle /\ mapIdle /\ cpIdle

\* InteractiveScanner::write_value
write_value(addr, value) ==
    /\ scanState = "ok"
    /\ mem' = MemAfterWrite(mem, platform, addr, to_bytes(value))
    /\ matches' = MatchesAfterWrite(matches, addr, value)
    /\ opResult' = Some(OpRecord("write_value", WriteValueResult(platform, addr, value),
                                 write_process_memory(platform, addr, Len(to_bytes(value))),
                                 Len(to_bytes(value)), <<>>, FALSE, value.t # value_type))
    /\ lastOp' = "write_value"
    /\ UNCHANGED <<platform, readablePages, writablePages, regions, value_type,
                   alignment, scanState>>

\* InteractiveScanner::write_all
write_all(value) ==
    /\ scanState = "ok"
    /\ LET out == WriteAllLoop(mem, platform, matches, value)
       IN  /\ mem' = out.mem
           /\ opResult' = Some(OpRecord("write_all", "ok", CountOk(out.results), 0,
                                        out.results, FALSE, value.t # value_type))
    /\ lastOp' = "write_all"
    /\ UNCHANGED <<platform, readablePages, writablePages, regions, matches, value_type,
                   alignment, scanState>>

\* InteractiveScanner::modify_value
modify_value(addr, op, operand) ==
    /\ scanState = "ok"
    /\ LET out == modify_value_in(mem, platform, addr, value_type, op, operand)
       IN  /\ mem' = out.mem
           /\ opResult' = Some(OpRecord("modify_value", out.kind,
                                        IF out.wrote THEN 1 ELSE 0,
                                        TypeSize(value_type), <<>>,
                                        \E a \in addr..(addr + TypeSize(value_type) - 1) :
                                            ~Readable(a),
                                        operand.t # value_type))
           /\ scanState' = IF out.kind = "panic" THEN "panicked" ELSE scanState
    /\ lastOp' = "modify_value"
    /\ UNCHANGED <<platform, readablePages, writablePages, regions, matches, value_type,
                   alignment>>

\* InteractiveScanner::modify_all
modify_all(op, operand) ==
    /\ scanState = "ok"
    /\ LET out == ModifyAllLoop(mem, platform, matches, value_type, op, operand)
           panicked == \E k \in 1..Len(out.results) : out.results[k] = "panic"
       IN  /\ mem' = out.mem
           /\ opResult' = Some(OpRecord("modify_all", IF panicked THEN "panic" ELSE "ok",
                                        CountOk(out.results), 0, out.results, FALSE,
                                        operand.t # value_type))
           /\ scanState' = IF panicked THEN "panicked" ELSE scanState
    /\ lastOp' = "modify_all"
    /\ UNCHANGED <<platform, readablePages, writablePages, regions, matches, value_type,
                   alignment>>

\* the target changes the protection of one of its pages:
\* unmapped, read-only or read-write
SetPageProtection(p, prot) ==
    /\ scanState = "ok"
    /\ readablePages' = IF prot = "none" THEN readablePages \ {p} ELSE readablePages \cup {p}
    /\ writablePages' = IF prot = "rw" THEN writablePages \cup {p} ELSE writablePages \ {p}
    /\ <<readablePages', writablePages'>> # <<readablePages, writablePages>>
    /\ lastOp' = "other"
    /\ opResult' = None
    /\ UNCHANGED <<platform, mem, regions, matches, value_type, alignment, scanState>>

writeFrame ==
    UNCHANGED <<iterVars, diffVars, arithVars,
                convVars, patVars, hexVars, mapVars, cpVars>>

NextWrite ==
    \/ (matches = <<>> /\ opResult = None /\ initial_scan(platform))
          /\ UNCHANGED writeVars /\ writeFrame
    \/ (\E a \in WriteAddrs, v \in WriteValues(value_type) : write_value(a, v)) /\ writeFrame
    \/ (\E v \in WriteValues(value_type) : write_all(v)) /\ writeFrame
    \/ (\E a \in WriteAddrs, args \in ModifyArgs(value_type) :
            modify_value(a, args[1], args[2])) /\ writeFrame
    \/ (\E args \in ModifyArgs(value_type) : modify_all(args[1], args[2])) /\ writeFrame
    \/ (\E p \in AllPages, prot \in {"none", "r", "rw"} : SetPageProtection(p, prot))
          /\ writeFrame

SpecWrite == InitWrite /\ [][NextWrite]_vars

\* C16: write_value returns an error exactly when fewer bytes than the
\* value's encoded size were written to the target, and in every outcome it
\* leaves the match list (addresses, current and previous values) and the
\* region list as they were.
C16_WriteValueFrame ==
    [][lastOp' = "write_value" =>
          /\ matches' = matches
          /\ regions' = regions
          /\ (opResult'[1].kind = "err") <=> (opResult'[1].n < opResult'[1].size)
          /\ opResult'[1].kind \in {"ok", "err"}
          /\ opResult'[1].kind = "err" => mem' = mem]_vars

\* a successful write under a match whose cached value is now stale
C16_Witness ==
    /\ lastOp = "write_value"
    /\ opResult[1].kind = "ok"
    /\ matches # <<>>
    /\ matches[1].address = 0 /\ matches[1].current_value.v = 0
    /\ mem[0] = 255

\* C17: bulk operations never abort on a per-address failure.  write_all
\* and modify_all attempt every current match in match order and return
\* Ok(k), k the number of addresses at which the operation succeeded.
C17_BulkNeverAborts ==
    (opResult # None /\ opResult[1].op \in {"write_all", "modify_all"}) =>
        /\ opResult[1].kind = "ok"
        /\ Len(opResult[1].results) = Len(matches)
        /\ opResult[1].n = Cardinality({k \in 1..Len(opResult[1].results) :
                                           opResult[1].results[k] = "ok"})
        /\ opResult[1].n >= 0 /\ opResult[1].n <= Len(matches)

\* C18: modify_value fails without writing.  When the current value at addr
\* cannot be read in full, or the operand's variant differs from the
\* scanner's value type, it returns an error and the target memory is
\* unchanged.
C18_ModifyFailsWithoutWrite ==
    [][(lastOp' = "modify_value" /\ opResult' # None
          /\ (opResult'[1].readFailed \/ opResult'[1].mismatch)) =>
          /\ opResult'[1].kind = "err"
          /\ opResult'[1].n = 0
          /\ mem' = mem]_vars

\* a type-mismatched modify_value on a readable, writable, non-zero value
C18_Witness ==
    /\ lastOp = "modify_value"
    /\ opResult[1].mismatch /\ ~opResult[1].readFailed
    /\ opResult[1].kind = "err"
    /\ platform = "windows"
    /\ writablePages = AllPages
    /\ \E a \in DOMAIN mem : mem[a] # 0

(***************************************************************************)
(* Filter calls with their arguments on record (interactive.rs): the       *)
(* scanner is driven as in SpecScan with its default alignment; a filter   *)
(* call records the adapter, the operation, the compare value and the      *)
(* match list it started from, and the next operation drops the record.    *)
(***************************************************************************)
FilterCall(pf, op, compare_value, before) ==
    [pf |-> pf, op |-> op, compare_value |-> compare_value, before |-> before]

InitFilter ==
    /\ platform = "any"
    /\ mem = [a \in 0..(MaxAddr - 1) |-> 0]
    /\ readablePages = AllPages
    /\ regions \in WriteRegionLists
    /\ matches = <<>>
    /\ value_type \in WriteTypes
    /\ alignment = TypeSize(value_type)
    /\ scanState = "ok"
    /\ lastOp = "new"
    /\ checkpoints = <<>>
    /\ filterCall = None
    /\ iterIdle /\ diffIdle /\ arithIdle
    /\ convIdle /\ patIdle /\ hexIdle /\ mapIdle /\ writeIdle

RecordedFilter(pf, op, compare_value) ==
    /\ filter(pf, op, compare_value)
    /\ filterCall' = Some(FilterCall(pf, op, compare_value, matches))

filterFrame ==
    UNCHANGED <<iterVars, diffVars, arithVars,
                convVars, patVars, hexVars, mapVars, writeVars, checkpoints>>

NextFilter ==
    \/ (\E pf \in Platforms : initial_scan(pf)) /\ filterCall' = None /\ filterFrame
    \/ (\E pf \in Platforms, args \in FilterArgs(value_type) :
            RecordedFilter(pf, args[1], args[2])) /\ filterFrame
    \/ (\E a \in 0..(MaxAddr - 1), b \in ByteVals : TargetWrite(a, b))
          /\ filterCall' = None /\ filterFrame
    \/ (\E p \in AllPages : TargetProtect(p)) /\ filterCall' = None /\ filterFrame

SpecFilter == InitFilter /\ [][NextFilter]_vars

\* the value now stored at the address of match m, when all of its bytes
\* can be read
FullyReadable(m, t) == \A a \in m.address..(m.address + TypeSize(t) - 1) : Readable(a)

LiveValue(m, t) == Val(t, from_le_bytes(ReadBuffer(m.address, TypeSize(t)), t))

\* the predicate of a filter operation on the re-decoded value c
Satisfies(op, c, compare_value, old) ==
    CASE op = "Equals" -> compare_value # None /\ c = compare_value[1]
      [] op = "LessThan" ->
            compare_value # None /\ c.t = compare_value[1].t /\ c.v < compare_value[1].v
      [] op = "GreaterThan" ->
            compare_value # None /\ c.t = compare_value[1].t /\ c.v > compare_value[1].v
      [] op = "Increased" -> c.v > old.v
      [] op = "Decreased" -> c.v < old.v
      [] op = "Changed" -> c # old
      [] op = "Unchanged" -> c = old

\* the old matches that survive the recorded call, in their old order
Survivors(call, t) ==
    SelectSeq(call.before,
              LAMBDA m : /\ FullyReadable(m, t)
                         /\ Satisfies(call.op, LiveValue(m, t), call.compare_value,
                                      m.current_value))

\* C20: filter(op, compare_value) is exact.  The new match list is the
\* subsequence of the old matches whose address is still fully readable and
\* whose freshly re-decoded value c satisfies the predicate; each kept match
\* has its old address, current_value = c and previous_value = the old
\* current_value.
C20_FilterExact ==
    filterCall # None =>
        LET kept == Survivors(filterCall[1], value_type)
        IN  /\ Len(matches) = Len(kept)
            /\ \A k \in 1..Len(kept) :
                  /\ matches[k].address = kept[k].address
                  /\ matches[k].current_value = LiveValue(kept[k], value_type)
                  /\ matches[k].previous_value = Some(kept[k].current_value)

\* an Increased filter that kept one of three matches and dropped an
\* unchanged and a decreased one
C20_Witness ==
    /\ filterCall # None
    /\ filterCall[1].op = "Increased"
    /\ Len(filterCall[1].before) = 3
    /\ Len(matches) = 1
    /\ \E k \in 1..3 : filterCall[1].before[k].current_value.v
                          > LiveValue(filterCall[1].before[k], value_type).v

(***************************************************************************)
(* Checkpoints: save_checkpoint and filter_checkpoint_relative, which      *)
(* python.rs calls on the scanner.  The target is a process with two       *)
(* counters of one byte each, at addresses 0 and 1, which stay readable;   *)
(* the scanner's value type is U8.                                         *)
(***************************************************************************)
CpNames == {"cp1", "cp2", "cp3"}

\* the values the two counters take
CounterValues(a) == IF a = 0 THEN {100, 110, 120} ELSE {100, 110, 130}

MarginPercents == {0, 10, 50}

\* a checkpoint is a set of entries, one per captured address
CpEntry(a, v) == [address |-> a, value |-> v]

CpLookup(cp, a) ==
    IF \E e \in cp : e.address = a
    THEN Some((CHOOSE e \in cp : e.address = a).value)
    ELSE None

\* a margin test on the absolute difference of the deltas
within_margin_absolute(a, b, m) == Abs(a - b) <= m

\* within_margin(a, b, m%) on whole numbers, where a magnitude below 1e-10
\* is a magnitude of 0
within_margin(a, b, m) ==
    LET max_abs == IF Abs(a) > Abs(b) THEN Abs(a) ELSE Abs(b)
    IN  IF a = 0 /\ b = 0 THEN TRUE
        ELSE IF max_abs = 0 THEN a = b
        ELSE 100 * Abs(a - b) <= m * max_abs

\* the values captured by save_checkpoint: the current value at every
\* matched address that can be read
CapturedValues(ms, t) ==
    {CpEntry(ms[k].address, LiveValue(ms[k], t)) :
        k \in {j \in 1..Len(ms) : FullyReadable(ms[j], t)}}

\* the loop of filter_checkpoint_relative over the matches
RECURSIVE CheckpointLoop(_, _, _, _, _, _)
CheckpointLoop(ms, c1, c2, c3, margin, t) ==
    IF ms = <<>> THEN <<>>
    ELSE LET m == Head(ms)
             v1 == CpLookup(c1, m.address)
             v2 == CpLookup(c2, m.address)
             v3 == CpLookup(c3, m.address)
             keep ==
                 /\ v1 # None /\ v2 # None /\ v3 # None
                 /\ v1[1].t = v2[1].t /\ v2[1].t = v3[1].t
                 /\ within_margin(v2[1].v - v1[1].v, v3[1].v - v2[1].v, margin)
                 /\ FullyReadable(m, t)
         IN  (IF keep THEN <<[m EXCEPT !.current_value = LiveValue(m, t)]>> ELSE <<>>)
             \o CheckpointLoop(Tail(ms), c1, c2, c3, margin, t)

InitCheckpoint ==
    /\ platform = "any"
    /\ mem = [a \in 0..(MaxAddr - 1) |-> IF a < 2 THEN 100 ELSE 0]
    /\ readablePages = AllPages
    /\ regions = <<Region(0, 2)>>
    /\ matches = <<>>
    /\ value_type = "U8"
    /\ alignment = 1
    /\ scanState = "ok"
    /\ lastOp = "new"
    /\ checkpoints = [n \in CpNames |-> None]
    /\ filterCall = None
    /\ iterIdle /\ diffIdle /\ arithIdle
    /\ convIdle /\ patIdle /\ hexIdle /\ mapIdle /\ writeIdle

\* a counter of the target moves up to another of its values
CounterWrite(a, b) ==
    /\ mem[a] < b
    /\ mem' = [mem EXCEPT ![a] = b]
    /\ lastOp' = "other"
    /\ UNCHANGED <<platform, readablePages, regions, matches, value_type,
                   alignment, scanState, checkpoints>>
    /\ filterCall' = None

\* save_checkpoint(name); an existing checkpoint of that name is replaced
save_checkpoint(name) ==
    /\ checkpoints' = [checkpoints EXCEPT ![name] = Some(CapturedValues(matches, value_type))]
    /\ lastOp' = "save_checkpoint"
    /\ filterCall' = None
    /\ UNCHANGED <<platform, mem, readablePages, regions, matches, value_type,
                   alignment, scanState>>

\* filter_checkpoint_relative("cp1", "cp2", "cp3", margin); a missing
\* checkpoint is a NotFound error that leaves the matches alone
filter_checkpoint_relative(margin) ==
    /\ lastOp' = "filter_checkpoint"
    /\ filterCall' = Some(FilterCall("any", "CheckpointRelative", Some(margin), matches))
    /\ IF \E n \in CpNames : checkpoints[n] = None
       THEN UNCHANGED matches
       ELSE matches' = CheckpointLoop(matches, checkpoints["cp1"][1], checkpoints["cp2"][1],
                                      checkpoints["cp3"][1], margin, value_type)
    /\ UNCHANGED <<platform, mem, readablePages, regions, value_type, alignment,
                   scanState, checkpoints>>

cpFrame ==
    UNCHANGED <<iterVars, diffVars, arithVars,
                convVars, patVars, hexVars, mapVars, writeVars>>

NextCheckpoint ==
    \/ /\ matches = <<>>
       /\ initial_scan("linux") /\ UNCHANGED checkpoints /\ filterCall' = None /\ cpFrame
    \/ (\E a \in 0..1 : \E b \in CounterValues(a) : CounterWrite(a, b)) /\ cpFrame
    \/ (\E n \in CpNames : save_checkpoint(n)) /\ cpFrame
    \/ (\E m \in MarginPercents : filter_checkpoint_relative(m)) /\ cpFrame

SpecCheckpoint == InitCheckpoint /\ [][NextCheckpoint]_vars

\* the value a checkpoint holds for an address, as a set of at most one value
CpValues(n, a) == {e.value : e \in {x \in checkpoints[n][1] : x.address = a}}

\* the deltas of an address across cp1, cp2, cp3 pass the margin
DeltasAgree(a, margin) ==
    \E v1 \in CpValues("cp1", a) : \E v2 \in CpValues("cp2", a) : \E v3 \in CpValues("cp3", a) :
        /\ v1.t = v2.t /\ v2.t = v3.t
        /\ LET delta1 == v2.v - v1.v
               delta2 == v3.v - v2.v
               larger == IF Abs(delta1) > Abs(delta2) THEN Abs(delta1) ELSE Abs(delta2)
           IN  \/ delta1 = 0 /\ delta2 = 0
               \/ larger > 0 /\ 100 * Abs(delta1 - delta2) <= margin * larger

CheckpointFilterDone ==
    /\ filterCall # None
    /\ filterCall[1].op = "CheckpointRelative"
    /\ \A n \in CpNames : checkpoints[n] # None

C21_MatchTyping ==
    \A k \in 1..Len(matches) :
        /\ matches[k].current_value.t = value_type
        /\ matches[k].previous_value # None =>
              matches[k].previous_value[1].t = value_type

\* a filter kept a signed match whose value changed sign: both values are I8
C21_Witness ==
    /\ lastOp = "filter"
    /\ value_type = "I8"
    /\ \E k \in 1..Len(matches) :
          /\ matches[k].current_value = Val("I8", -1)
          /\ matches[k].previous_value = Some(Val("I8", 0))

\* C26: match containment -- after any sequence of initial_scan and filter
\* calls every matched address lies inside [base_address, base_address +
\* size) of a region the scanner still holds.
C26_MatchContainment ==
    \A k \in 1..Len(matches) :
        \E i \in 1..Len(regions) :
            /\ matches[k].address >= regions[i].base_address
            /\ matches[k].address < regions[i].base_address + regions[i].size

\* a filter dropped the first of two regions and kept the match at the base
\* of the second
C26_Witness ==
    /\ lastOp = "filter"
    /\ regions = <<Region(2, 1)>>
    /\ Len(matches) = 1 /\ matches[1].address = 2
    /\ matches[1].current_value.v # 0

\* C27: region pruning is irreversible -- no operation makes the region list
\* longer, a filter that leaves no match leaves no region, and with no region
\* every initial_scan and filter leaves no match.
C27_PruningIrreversible ==
    [][/\ Len(regions') <= Len(regions)
       /\ (lastOp' = "filter" /\ matches' = <<>>) => regions' = <<>>
       /\ (regions = <<>> /\ lastOp' \in {"initial_scan", "filter"}) => matches' = <<>>
      ]_vars

\* an initial_scan on a scanner whose regions were all pruned
C27_Witness ==
    /\ lastOp = "initial_scan"
    /\ regions = <<>>
    /\ matches = <<>>
    /\ scanState = "ok"

\* C28: initial_scan finishes and returns a match count for every alignment
\* set_alignment accepts, 0 included: the scanning thread never aborts.
C28_InitialScanTerminates == scanState # "panicked"

\* C30: a filter with Equals, LessThan or GreaterThan and no compare value
\* reports no error, keeps no match and clears every region.
C30_MissingCompareValue ==
    (/\ filterCall # None
     /\ filterCall[1].op \in {"Equals", "LessThan", "GreaterThan"}
     /\ filterCall[1].compare_value = None)
    => /\ scanState = "ok"
       /\ matches = <<>>
       /\ regions = <<>>

\* such a filter ran on a scanner that held three matches
C30_Witness ==
    /\ filterCall # None
    /\ filterCall[1].op = "LessThan"
    /\ filterCall[1].compare_value = None
    /\ Len(filterCall[1].before) = 3
    /\ lastOp = "filter"
    /\ matches = <<>>

(***************************************************************************)
(* Order and readability of the iterated regions (checked under SpecIter). *)
(***************************************************************************)

\* what the OS says about tile i: committed, readable and not guarded
ReadableTile(pf, kind) ==
    IF pf = "windows" THEN kind = "rw" ELSE kind \in {"rw-p", "r-xp"}

\* the tiles of that kind that begin in [min_app_addr, max_app_addr)
ReadableTileBases ==
    {TileBase(i) : i \in {j \in 1..Len(osTiles) :
                             /\ ReadableTile(platform, osTiles[j])
                             /\ TileBase(j) >= min_app_addr
                             /\ TileBase(j) < max_addr}}

\* C22: iteration order -- the regions yielded by one pass have strictly
\* increasing base addresses and do not overlap (each starts at or after
\* the end of the one before), and once the pass is complete every
\* interesting region the OS reports in [min_app_addr, max_app_addr) has
\* been yielded exactly once.
C22_IterationOrder ==
    /\ \A i \in 1..(Len(yielded) - 1) :
          /\ yielded[i].base_address < yielded[i + 1].base_address
          /\ yielded[i].base_address + yielded[i].size <= yielded[i + 1].base_address
    /\ itState = "done" =>
          \A b \in ReadableTileBases :
              Cardinality({i \in 1..Len(yielded) : yielded[i].base_address = b}) = 1

\* a complete pass over three ranges whose middle one is not interesting
C22_Witness ==
    /\ itState = "done"
    /\ Len(osTiles) = 3
    /\ ReadableTileBases = {0, 2 * TileSize}
    /\ Len(yielded) = 2
    /\ yielded[1].base_address = 0 /\ yielded[2].base_address = 2 * TileSize

\* C23: every region the iterator yields is readable (protect.read is set);
\* a region whose protection grants no read access is never yielded.
C23_YieldedReadable ==
    \A i \in 1..Len(yielded) : yielded[i].protect.read

(***************************************************************************)
(* MemoryDiff (diff.rs): one tracked region.  mappings holds the mapper's  *)
(* MappedMemory entries with their local buffers, snapOld the snapshot     *)
(* vector (at most one snapshot: take_snapshot clears it first), snapNew   *)
(* the refreshed clone of the last diff and changes the list that diff     *)
(* returned for the region.                                                *)
(***************************************************************************)
\* MappedMemory: the remote region and the local buffer filled at map time
MappedMemory(r, data) == [base_address |-> r.base_address, size |-> r.size, data |-> data]

\* MemoryRegionSnapshot::from_mapped
from_mapped(mapped) == Snapshot("Mapped", mapped.base_address, mapped.data)

\* MemoryMapper::get(remote_base_address)
MapperGet(map, base) == CHOOSE m \in map : m.base_address = base

\* MemoryRegionSnapshot::refresh for a snapshot backed by a mapping: the
\* data is copied from the mapping's buffer again
refresh(snap, map) == [snap EXCEPT !.data = MapperGet(map, snap.addr).data]

\* the regions handed to take_snapshot
DiffRegions == {Region(0, 2), Region(2, 1)}

InitMemDiff ==
    /\ platform \in Platforms
    /\ mem = [a \in 0..(MaxAddr - 1) |-> 0]
    /\ readablePages = AllPages
    /\ regions = <<>> /\ matches = <<>> /\ value_type = "I8" /\ alignment = 1
    /\ scanState = "ok" /\ lastOp = "new"
    /\ mappings = {}
    /\ mapResult = None
    /\ snapOld = None /\ snapNew = None /\ changes = <<>> /\ diffDone = FALSE
    /\ iterIdle /\ arithIdle
    /\ convIdle /\ patIdle /\ hexIdle /\ writeIdle /\ cpIdle

\* MemoryDiff::take_snapshot(region)
take_snapshot(r) ==
    /\ IF MapReadOk(platform, r)
       THEN LET mapped == MappedMemory(r, ReadBuffer(r.base_address, r.size))
            IN  /\ mappings' = HashMapInsert(mappings, mapped)
                /\ snapOld' = Some(from_mapped(mapped))
                /\ mapResult' = Some("ok")
       ELSE /\ snapOld' = None
            /\ mapResult' = Some("err")
            /\ UNCHANGED mappings
    /\ snapNew' = None /\ changes' = <<>> /\ diffDone' = FALSE
    /\ lastOp' = "take_snapshot"
    /\ UNCHANGED <<platform, mem, readablePages, regions, matches, value_type,
                   alignment, scanState>>

\* MemoryDiff::diff(sub_regions) with n sub-regions, the tracked region
\* first: a count that differs from the number of snapshots is an error
MemoryDiff_diff(n) ==
    /\ IF n # Len(snapOld)
       THEN /\ changes' = <<>> /\ snapNew' = None /\ diffDone' = FALSE
            /\ mapResult' = Some("err")
       ELSE IF snapOld = None
       THEN /\ changes' = <<>> /\ snapNew' = None /\ diffDone' = TRUE
            /\ mapResult' = Some("ok")
       ELSE LET old_snapshot == snapOld[1]
                new_snapshot == refresh(old_snapshot, mappings)
            IN  /\ changes' = diff_snapshots(old_snapshot, new_snapshot)
                /\ snapNew' = Some(new_snapshot)
                /\ diffDone' = TRUE
                /\ mapResult' = Some("ok")
    /\ lastOp' = "diff"
    /\ UNCHANGED <<platform, mem, readablePages, regions, matches, value_type,
                   alignment, scanState, snapOld, mappings>>

\* the result of an earlier diff says nothing about memory written since
Outdated == snapNew' = None /\ changes' = <<>> /\ diffDone' = FALSE

memDiffFrame ==
    UNCHANGED <<iterVars, arithVars, convVars, patVars, hexVars, writeVars, cpVars>>

NextMemDiff ==
    \/ (\E r \in DiffRegions : take_snapshot(r)) /\ memDiffFrame
    \/ (\E n \in 0..1 : MemoryDiff_diff(n)) /\ memDiffFrame
    \/ (\E a \in 0..(MaxAddr - 1), b \in ByteVals : TargetWrite(a, b))
          /\ Outdated /\ UNCHANGED <<snapOld, mappings, mapResult>> /\ memDiffFrame
    \/ (\E p \in AllPages : TargetProtect(p))
          /\ Outdated /\ UNCHANGED <<snapOld, mappings, mapResult>> /\ memDiffFrame

SpecMemDiff == InitMemDiff /\ [][NextMemDiff]_vars

\* C24: once take_snapshot(region) has succeeded and the target has changed
\* a byte inside the region, MemoryDiff::diff reports a MemoryChange for
\* that byte's address with the byte of the snapshot as old value and the
\* byte now in the target as new value.
C24_DiffDetectsChange ==
    (diffDone /\ snapOld # None) =>
        \A i \in 1..Len(snapOld[1].data) :
            LET a == snapOld[1].addr + i - 1
            IN  mem[a] # snapOld[1].data[i] =>
                   \E k \in 1..Len(changes) :
                       changes[k] = MemoryChange(a, snapOld[1].data[i], mem[a])

(***************************************************************************)
(* The handle open_process returns (checked under SpecWrite, which runs    *)
(* on either adapter).                                                     *)
(***************************************************************************)

\* C25: the handle is write-capable on both adapters -- a write_value whose
\* whole target range is writable in the target process writes all the
\* bytes of the value (write_process_memory returns their count, not 0) and
\* succeeds.
C25_HandleWriteCapable ==
    [][\A addr \in WriteAddrs : \A v \in WriteValues(value_type) :
          (/\ write_value(addr, v)
           /\ \A a \in addr..(addr + Len(to_bytes(v)) - 1) : Writable(a))
          => /\ opResult'[1].n = Len(to_bytes(v))
             /\ opResult'[1].kind = "ok"]_vars

(***************************************************************************)
(* scan_process (scanner.rs) over one region of the target, with and       *)
(* without use_memmap.  The page size of the system is PageSize; page_buf  *)
(* is the buffer of that size the fallback path reads every page into.     *)
(***************************************************************************)
Min(a, b) == IF a < b THEN a ELSE b

\* the search loop over one buffer: the offsets printed as [match]
RECURSIVE SearchHits(_, _, _)
SearchHits(buf, pattern, off) ==
    IF off < Len(buf)
    THEN LET found == naive_search(Slice(buf, off, Len(buf)), pattern)
         IN  IF found # None
             THEN <<off + found[1]>>
                  \o SearchHits(buf, pattern, NextOffset(off, found[1], Len(pattern)))
             ELSE <<>>
    ELSE <<>>

Shifted(hits, by) == [k \in 1..Len(hits) |-> hits[k] + by]

\* the path over the mapped region: one search of the whole buffer
MappedPath(r, pattern) ==
    Shifted(SearchHits(ReadBuffer(r.base_address, r.size), pattern, 0), r.base_address)

\* page_buf after read_process_memory stored read_n bytes at its start
PageBufAfterRead(page_buf, addr, read_n) ==
    [i \in 1..Len(page_buf) |-> IF i <= read_n THEN mem[addr + i - 1] ELSE page_buf[i]]

\* the page-by-page path: `while offset < region.size`
RECURSIVE PagedPath(_, _, _, _, _)
PagedPath(pf, r, pattern, offset, page_buf) ==
    IF offset < r.size
    THEN LET to_read == Min(PageSize, r.size - offset)
             read_n == read_process_memory(pf, r.base_address + offset, to_read)
             buf == PageBufAfterRead(page_buf, r.base_address + offset, read_n)
             here == IF read_n > 0
                     THEN Shifted(SearchHits(Slice(buf, 0, to_read), pattern, 0),
                                  r.base_address + offset)
                     ELSE <<>>
         IN  here \o PagedPath(pf, r, pattern, offset + to_read, buf)
    ELSE <<>>

\* the addresses scan_process reports for region r
scan_process(pf, r, pattern, use_memmap) ==
    IF use_memmap /\ MapReadOk(pf, r)
    THEN MappedPath(r, pattern)
    ELSE PagedPath(pf, r, pattern, 0, [i \in 1..PageSize |-> 0])

\* a target with one region over all of its memory, and a pattern
InitScanPaths ==
    /\ platform \in Platforms
    /\ mem \in [0..(MaxAddr - 1) -> ByteVals]
    /\ readablePages \in SUBSET AllPages
    /\ regions = <<Region(0, MaxAddr)>>
    /\ matches = <<>> /\ value_type = "I8" /\ alignment = 1
    /\ scanState = "ok" /\ lastOp = "new"
    /\ haystack = <<>> /\ regionBase = 0 /\ searchResult = None /\ prev_off = 0
    /\ scanHits = <<>> /\ scanPc = "idle"
    /\ needle \in SeqsUpTo(ByteVals, MaxNeedle)
    /\ mappedReport = None /\ pagedReport = None
    /\ iterIdle /\ diffIdle /\ arithIdle
    /\ convIdle /\ hexIdle /\ mapIdle /\ writeIdle /\ cpIdle

\* scan_process with use_memmap = true
ScanWithMemmap ==
    /\ mappedReport = None
    /\ mappedReport' = Some(scan_process(platform, regions[1], needle, TRUE))
    /\ UNCHANGED pagedReport

\* scan_process with use_memmap = false
ScanWithoutMemmap ==
    /\ pagedReport = None
    /\ pagedReport' = Some(scan_process(platform, regions[1], needle, FALSE))
    /\ UNCHANGED mappedReport

pathsFrame ==
    UNCHANGED <<scanVars, iterVars, diffVars, arithVars, convVars, hexVars, mapVars,
                writeVars, cpVars, haystack, needle, regionBase, searchResult, prev_off,
                scanHits, scanPc>>

NextScanPaths ==
    \/ ScanWithMemmap /\ pathsFrame
    \/ ScanWithoutMemmap /\ pathsFrame

SpecScanPaths == InitScanPaths /\ [][NextScanPaths]_vars

\* C29: scan-path equivalence -- for the same target memory and a non-empty
\* pattern the page-by-page path reports exactly the addresses that the
\* search of the whole mapped region reports, occurrences across a page
\* boundary included.
C29_ScanPathEquivalence ==
    (mappedReport # None /\ pagedReport # None /\ needle # <<>>) =>
        {mappedReport[1][k] : k \in 1..Len(mappedReport[1])}
            = {pagedReport[1][k] : k \in 1..Len(pagedReport[1])}

====
